---- MODULE Spec2Model ----
(***************************************************************************)
(* A model of bledger, the host-side driver of the Ledger Bitcoin app:     *)
(*   - the APDU status check and the APDUResponse decoders                 *)
(*     (lib/protocol/apdu.js),                                             *)
(*   - LedgerBcoin's locked and lock-free calls, the signing session       *)
(*     LedgerTXState and the caches of the LedgerTXInput descriptors       *)
(*     (lib/bcoin.js, lib/txstate.js, lib/ledger.js),                      *)
(*   - ManagedLedgerBcoin's open/close wrapper over the USB device         *)
(*     (lib/ledger/managed-ledgerbcoin.js, usb.js).                        *)
(* Each part has a specification of its own over the shared variables.     *)
(***************************************************************************)
EXTENDS Integers, Sequences, FiniteSets, TLC

VARIABLES
  \* --- APDU codec ---
  data,          \* the raw reply handed to a decoder (a sequence of bytes)
  response,      \* "none", or what the decoder returned or threw
  \* --- LedgerBcoin instance ---
  lock,          \* this.lock: [busy, jobs]
  calls,         \* the top-level calls in flight on the instance
  sigstate,      \* the LedgerTXState each signing call created
  ledgerInputs,  \* the caller's LedgerTXInput descriptors (shared by the calls)
  turns,         \* whose exchanges reached the device, in order, one entry per run
  \* --- ManagedLedgerBcoin over a USB device ---
  usb,           \* the busb device: [opened, claimed]
  mcalls,        \* the managed calls in flight
  \* --- LedgerBTCApp: one operation and its exchanges ---
  btc,           \* the operation in progress: its packets, the replies, the outcome
  \* --- one transport: USBDevice, HIDDevice or WebAuthnDevice ---
  dev,           \* the device: [type, timeout, opened, closed, lock]
  xcalls,        \* the open(), close() and exchange() calls made on it
  \* --- LedgerBcoin._getTransactionSignatures: the signatures array ---
  gts,           \* one call: the transaction, the descriptors, the loop, the array
  \* --- ProtocolWriter and ProtocolReader: one payload framed and read back ---
  frm,           \* the packets written and the reader they are pushed into
  \* --- LedgerSignature: one signature serialised and read back ---
  sgn,           \* the signature, its serialisation and what was read back
  \* --- parsePath: one derivation path parsed ---
  pth,           \* the path string, what it was made of, and what parsePath gave
  \* --- LedgerTXState: one session and the methods called on it ---
  ses,           \* the session, its descriptors, the method running and what it sent
  \* --- LedgerBTCApp.hashTransactionStart: the packets of one call ---
  hts,           \* the arguments of the call, its packets and how many were sent
  \* --- LedgerBTCApp.getTrustedInput: the exchanges of one call ---
  gti,           \* the arguments of the call, the packets sent, the replies and the result
  \* --- LedgerTXInput: the script a descriptor signs ---
  txi,           \* the descriptor, its cached script and what getPrevRedeem returned
  \* --- LedgerBcoin._signTransaction: the caller's transaction ---
  stx,           \* one call: the caller's tx, its clone, the descriptors and the loop
  \* --- one endpoint: the physical reads of two exchanges in a row ---
  phy            \* the reads requested of the endpoint, the packets the device sent, the two readers

apduVars == <<data, response>>
appVars  == <<lock, calls, sigstate, ledgerInputs, turns>>
mgdVars  == <<usb, mcalls>>
devVars  == <<dev, xcalls>>
vars     == <<data, response, lock, calls, sigstate, ledgerInputs, turns, usb, mcalls, btc,
              dev, xcalls,
              gts,
              frm,
              sgn,
              pth,
              ses,
              hts,
              gti,
              txi,
              stx,
              phy>>

\* What the actions of one part leave alone: the variables of the other parts.
exceptApdu == <<appVars, mgdVars, btc, devVars, gts, frm, sgn, pth, ses, hts, gti, txi, stx, phy>>
exceptApp  == <<apduVars, mgdVars, btc, devVars, gts, frm, sgn, pth, ses, hts, gti, txi, stx, phy>>
exceptMgd  == <<apduVars, appVars, btc, devVars, gts, frm, sgn, pth, ses, hts, gti, txi, stx, phy>>
exceptBtc  == <<apduVars, appVars, mgdVars, devVars, gts, frm, sgn, pth, ses, hts, gti, txi, stx, phy>>
exceptDev  == <<apduVars, appVars, mgdVars, btc, gts, frm, sgn, pth, ses, hts, gti, txi, stx, phy>>
exceptPhy == <<apduVars, appVars, mgdVars, btc, gts, frm, sgn, pth, ses, hts, gti, txi, stx, devVars>>
exceptStx == <<apduVars, appVars, mgdVars, btc, gts, frm, sgn, pth, ses, hts, gti, txi, devVars, phy>>
exceptTxi == <<apduVars, appVars, mgdVars, btc, gts, frm, sgn, pth, ses, hts, gti, devVars, stx, phy>>
exceptGti == <<apduVars, appVars, mgdVars, btc, gts, frm, sgn, pth, ses, hts, devVars, txi, stx, phy>>
exceptHts == <<apduVars, appVars, mgdVars, btc, gts, frm, sgn, pth, ses, devVars, gti, txi, stx, phy>>
exceptSes == <<apduVars, appVars, mgdVars, btc, gts, frm, sgn, pth, devVars, hts, gti, txi, stx, phy>>
exceptPath == <<apduVars, appVars, mgdVars, btc, gts, frm, sgn, devVars, ses, hts, gti, txi, stx, phy>>
exceptSig  == <<apduVars, appVars, mgdVars, btc, gts, frm, devVars, pth, ses, hts, gti, txi, stx, phy>>
exceptFrm  == <<apduVars, appVars, mgdVars, btc, gts, devVars, sgn, pth, ses, hts, gti, txi, stx, phy>>
exceptGts  == <<apduVars, appVars, mgdVars, btc, devVars, frm, sgn, pth, ses, hts, gti, txi, stx, phy>>

Null == "null"

(***************************************************************************)
(*                         APDU status words                               *)
(***************************************************************************)

SW_INCORRECT_LENGTH == 26368
SW_INVALID_SECURITY_STATUS == 27010
SW_INVALID_DATA == 27264
SW_FILE_NOT_FOUND == 27266
SW_INCORRECT_PARAMETERS == 27392
SW_CONDITIONS_OF_USE_NOT_SATISFIED == 27013
SW_INS_NOT_SUPPORTED == 27904
SW_INTERNAL_ERROR == 111
SW_OK == 36864

\* apdu.statusByVal: reverse(apdu.STATUS_WORDS), the name a numeric value maps to.
statusByVal(v) ==
  CASE v = SW_INCORRECT_LENGTH -> "SW_INCORRECT_LENGTH"
    [] v = SW_INVALID_SECURITY_STATUS -> "SW_INVALID_SECURITY_STATUS"
    [] v = SW_INVALID_DATA -> "SW_INVALID_DATA"
    [] v = SW_FILE_NOT_FOUND -> "SW_FILE_NOT_FOUND"
    [] v = SW_INCORRECT_PARAMETERS -> "SW_INCORRECT_PARAMETERS"
    [] v = SW_CONDITIONS_OF_USE_NOT_SATISFIED -> "SW_CONDITIONS_OF_USE_NOT_SATISFIED"
    [] v = SW_INS_NOT_SUPPORTED -> "SW_INS_NOT_SUPPORTED"
    [] v = SW_INTERNAL_ERROR -> "SW_INTERNAL_ERROR"
    [] v = SW_OK -> "SW_OK"
    [] OTHER -> Null

\* apdu.errors: pairObjects(STATUS_WORDS, errorMessages); SW_OK has no message.
errors(name) ==
  CASE name = "SW_INCORRECT_LENGTH" -> "Incorrect length"
    [] name = "SW_INVALID_SECURITY_STATUS" -> "Invalid security status"
    [] name = "SW_INVALID_DATA" -> "Invalid data"
    [] name = "SW_FILE_NOT_FOUND" -> "File not found"
    [] name = "SW_INCORRECT_PARAMETERS" -> "Incorrect parameters"
    [] name = "SW_CONDITIONS_OF_USE_NOT_SATISFIED" -> "Conditions not satisfied"
    [] name = "SW_INS_NOT_SUPPORTED" -> "Instruction not supported (check app on the device)"
    [] name = "SW_INTERNAL_ERROR" -> "Internal error"
    [] OTHER -> Null

\* new APDUError(reason, code, hexCode): this.code = code || -1.
APDUError(reason, code) ==
  [type |-> "APDUError", code |-> IF code = 0 THEN -1 ELSE code, message |-> reason]

NoError == [type |-> "none"]

\* readU16BE / statusCode[0] << 8 | statusCode[1]
readU16BE(buffer) == buffer[1] * 256 + buffer[2]

\* throwError(statusCode): NoError when it returns, the APDUError it throws otherwise.
throwError(statusCode) ==
  IF Len(statusCode) # 2 THEN NoError
  ELSE LET statusNo == readU16BE(statusCode) IN
    IF statusNo = SW_OK THEN NoError
    ELSE IF statusCode[1] = SW_INTERNAL_ERROR
      THEN APDUError("Internal error", statusNo)
    ELSE LET message == errors(statusByVal(statusNo)) IN
      IF message # Null THEN APDUError(message, statusNo)
      ELSE APDUError("Unknown status code", statusNo)

(***************************************************************************)
(*                        APDUResponse decoders                            *)
(***************************************************************************)

\* A bufio read past the end of the buffer.
EncodingError == [type |-> "EncodingError"]
\* A failed assert() of APDUResponse.set or of bufio.
AssertionError == [type |-> "AssertionError"]

\* new APDUResponse({data, status, type}); set() asserts isU16(status).
APDUResponse(payload, status, ins) ==
  [type |-> "APDUResponse", status |-> status, ins |-> ins, data |-> payload]

\* emptyResponse(type): data = apdu.EMPTY, status = SW_OK.
emptyResponse(ins) == APDUResponse(<<>>, SW_OK, ins)

\* Buffer.slice(from, to) with 0-based offsets, to exclusive.
Slice(buf, from, to) == SubSeq(buf, from + 1, to)

\* Buffer.slice(-2): the last two bytes, or the whole buffer when it is shorter.
Last2(buf) == IF Len(buf) <= 2 THEN buf ELSE SubSeq(buf, Len(buf) - 1, Len(buf))

\* The decoder's body once throwError has returned, as bufio reads it:
\* a read of n bytes at offset off succeeds iff off + n <= Len(buf).
\* br.readU16BE() at offset off.
ReadStatusAt(buf, off) == buf[off + 1] * 256 + buf[off + 2]

\* APDUResponse.getFirmwareVersion(data)
DecodeGetFirmwareVersion(buf) ==
  LET err == throwError(buf) IN
  IF err # NoError THEN err
  ELSE IF Len(buf) < 10 THEN EncodingError
  ELSE APDUResponse(
         [features |-> buf[1], archID |-> buf[2],
          version |-> <<buf[3], buf[4], buf[5]>>,
          tcsLoaderPatchVersion |-> buf[7], mode |-> buf[8]],
         ReadStatusAt(buf, 8), "INS_GET_FIRMWARE_VERSION")

\* APDUResponse.getWalletPublicKey(data)
DecodeGetWalletPublicKey(buf) ==
  LET err == throwError(buf) IN
  IF err # NoError THEN err
  ELSE IF Len(buf) < 1 THEN EncodingError
  ELSE LET pubkeyLength == buf[1]
           aoff == 1 + pubkeyLength IN
    IF Len(buf) < aoff + 1 THEN EncodingError
    ELSE LET addressLength == buf[aoff + 1]
             coff == aoff + 1 + addressLength IN
      IF Len(buf) < coff + 32 + 2 THEN EncodingError
      ELSE APDUResponse(
             [publicKey |-> Slice(buf, 1, aoff),
              address |-> Slice(buf, aoff + 1, coff),
              chainCode |-> Slice(buf, coff, coff + 32)],
             ReadStatusAt(buf, coff + 32), "INS_GET_WALLET_PUBLIC_KEY")

\* APDUResponse.getTrustedInput(data)
DecodeGetTrustedInput(buf) ==
  LET err == throwError(buf) IN
  IF err # NoError THEN err
  ELSE IF Len(buf) = 2 THEN emptyResponse("INS_GET_TRUSTED_INPUT")
  ELSE IF Len(buf) < 58 THEN EncodingError
  ELSE APDUResponse(Slice(buf, 0, 56), ReadStatusAt(buf, 56), "INS_GET_TRUSTED_INPUT")

\* APDUResponse.hashTransactionStart(data)
DecodeHashTransactionStart(buf) ==
  LET err == throwError(buf) IN
  IF err # NoError THEN err
  ELSE emptyResponse("INS_UNTRUSTED_HASH_TX_INPUT_START")

\* APDUResponse.hashOutputFinalize(data)
DecodeHashOutputFinalize(buf) ==
  LET err == throwError(buf) IN
  IF err # NoError THEN err
  ELSE IF Len(buf) = 2 THEN emptyResponse("INS_UNTRUSTED_HASH_TX_INPUT_FINALIZE_FULL")
  ELSE IF Len(buf) < 2 THEN EncodingError
  ELSE APDUResponse([i \in 1..(Len(buf) - 2) |-> buf[i] # 0],
                    ReadStatusAt(buf, Len(buf) - 2),
                    "INS_UNTRUSTED_HASH_TX_INPUT_FINALIZE_FULL")

\* signature[0] &= 0xFE
MaskFirst(sig) == IF sig = <<>> THEN sig ELSE [sig EXCEPT ![1] = sig[1] - (sig[1] % 2)]

\* APDUResponse.hashSign(data)
DecodeHashSign(buf) ==
  LET err == throwError(buf) IN
  IF err # NoError THEN err
  ELSE IF Len(buf) < 2 THEN AssertionError
  ELSE APDUResponse(MaskFirst(Slice(buf, 0, Len(buf) - 2)),
                    ReadStatusAt(buf, Len(buf) - 2), "INS_UNTRUSTED_HASH_SIGN")

\* APDUResponse.signMessage0(data)
DecodeSignMessage0(buf) ==
  LET err == throwError(Last2(buf)) IN
  IF err # NoError THEN err
  ELSE IF Len(buf) < 2 THEN AssertionError
  ELSE LET confirmationType == buf[1] IN
    APDUResponse(
      [confirmationNeeded |-> confirmationType # 0,
       confirmationType |-> confirmationType,
       keycardData |-> IF confirmationType = 2 THEN Slice(buf, 1, Len(buf) - 2) ELSE <<>>,
       secureScreenData |-> IF confirmationType = 3 THEN Slice(buf, 1, Len(buf) - 2) ELSE <<>>],
      readU16BE(Last2(buf)), "INS_SIGN_MESSAGE")

\* APDUResponse.signMessage(data, encryptedOutputData, last)
DecodeSignMessage(buf, encryptedOutputData, last) ==
  LET err == throwError(Last2(buf)) IN
  IF err # NoError THEN err
  ELSE IF Len(buf) < 1 THEN EncodingError
  ELSE LET outputDataLength == buf[1]
           off1 == 1 + outputDataLength IN
    IF Len(buf) < off1 THEN EncodingError
    ELSE LET enc == encryptedOutputData \o Slice(buf, 1, off1) IN
      IF ~last THEN
        IF Len(buf) < off1 + 2 THEN EncodingError
        ELSE APDUResponse(
               [confirmationNeeded |-> FALSE, confirmationType |-> -1,
                secureScreenData |-> <<>>, encryptedOutputData |-> enc],
               ReadStatusAt(buf, off1), "INS_SIGN_MESSAGE")
      ELSE IF Len(buf) < off1 + 1 THEN EncodingError
      ELSE LET confirmationType == buf[off1 + 1]
               off2 == off1 + 1
               \* br.readBytes(br.left() - 2) when the secure screen was requested
               off3 == IF confirmationType = 3 THEN Len(buf) - 2 ELSE off2 IN
        IF off3 < off2 THEN AssertionError
        ELSE IF Len(buf) < off3 + 2 THEN EncodingError
        ELSE APDUResponse(
               [confirmationNeeded |-> confirmationType # 0,
                confirmationType |-> confirmationType,
                secureScreenData |-> IF confirmationType = 3
                                     THEN Slice(buf, off2, off3) ELSE <<>>,
                encryptedOutputData |-> enc],
               ReadStatusAt(buf, off3), "INS_SIGN_MESSAGE")

\* APDUResponse.signMessageFinal(data)
DecodeSignMessageFinal(buf) ==
  LET err == throwError(Last2(buf)) IN
  IF err # NoError THEN err
  ELSE IF Len(buf) < 2 THEN AssertionError
  ELSE APDUResponse(Slice(buf, 0, Len(buf) - 2), readU16BE(Last2(buf)), "INS_SIGN_MESSAGE")

Decoders ==
  {"getFirmwareVersion", "getWalletPublicKey", "getTrustedInput",
   "hashTransactionStart", "hashOutputFinalize", "hashSign",
   "signMessage0", "signMessage", "signMessageLast", "signMessageFinal"}

\* The static method of APDUResponse that decoder d names, applied to buf.
DecodeWith(d, buf) ==
  CASE d = "getFirmwareVersion" -> DecodeGetFirmwareVersion(buf)
    [] d = "getWalletPublicKey" -> DecodeGetWalletPublicKey(buf)
    [] d = "getTrustedInput" -> DecodeGetTrustedInput(buf)
    [] d = "hashTransactionStart" -> DecodeHashTransactionStart(buf)
    [] d = "hashOutputFinalize" -> DecodeHashOutputFinalize(buf)
    [] d = "hashSign" -> DecodeHashSign(buf)
    [] d = "signMessage0" -> DecodeSignMessage0(buf)
    [] d = "signMessage" -> DecodeSignMessage(buf, <<>>, FALSE)
    [] d = "signMessageLast" -> DecodeSignMessage(buf, <<>>, TRUE)
    [] d = "signMessageFinal" -> DecodeSignMessageFinal(buf)


(***************************************************************************)
(*      Specifications of the APDU codec: SpecStatus and SpecDecode        *)
(***************************************************************************)

\* The longest payload in front of the status word (a trusted input is 56 bytes).
MaxPayload == 58

Bytes == 0..255

\* Payloads are n copies of one byte; the bytes a decoder reads as lengths or
\* as a confirmation type take the values 0, 1 and 3.
FillBytes == {0, 1, 3}
Fill(n, b) == [i \in 1..n |-> b]

\* The two bytes of the sampled status words.
StatusHi == {0, 105, 107, 109, 111, 144}
StatusLo == {0, 111, 130, 133}

SampleReplies ==
  {Fill(n, b) \o <<hi, lo>> : n \in 0..MaxPayload, b \in FillBytes,
                              hi \in StatusHi, lo \in StatusLo}

StatusWords == {<<hi, lo>> : hi \in Bytes, lo \in Bytes}

NoResponse == [by |-> "none", result |-> NoError]

\* The state of the parts a specification leaves alone.
ApduIdle == data = <<>> /\ response = NoResponse
AppIdle ==
  /\ lock = [busy |-> FALSE, jobs |-> <<>>]
  /\ calls = <<>>
  /\ sigstate = <<>>
  /\ ledgerInputs = <<>>
  /\ turns = <<>>
MgdIdle == usb = [opened |-> FALSE, claimed |-> FALSE] /\ mcalls = <<>>
BtcIdle == btc = <<>>
DevIdle == dev = <<>> /\ xcalls = <<>>
PhyIdle == phy = <<>>
StxIdle == stx = <<>>
TxiIdle == txi = <<>>
GtiIdle == gti = <<>>
HtsIdle == hts = <<>>
SesIdle == ses = <<>>
PathIdle == pth = <<>>
SigIdle == sgn = <<>>
FrmIdle == frm = <<>>
GtsIdle == gts = <<>>

\* throwError(statusCode) on a two-byte status word.
ThrowErrorStep ==
  /\ response = NoResponse
  /\ Len(data) = 2
  /\ response' = [by |-> "throwError", result |-> throwError(data)]
  /\ UNCHANGED <<data, exceptApdu>>

InitStatus ==
  /\ data \in StatusWords
  /\ response = NoResponse
  /\ AppIdle /\ MgdIdle /\ BtcIdle /\ DevIdle /\ GtsIdle /\ FrmIdle /\ SigIdle /\ PathIdle /\ SesIdle /\ HtsIdle /\ GtiIdle /\ TxiIdle /\ StxIdle /\ PhyIdle

NextStatus == ThrowErrorStep

SpecStatus == InitStatus /\ [][NextStatus]_vars

\* One APDUResponse decoder applied to the raw reply.
Decode(d) ==
  /\ response = NoResponse
  /\ response' = [by |-> d, result |-> DecodeWith(d, data)]
  /\ UNCHANGED <<data, exceptApdu>>

InitDecode ==
  /\ data \in SampleReplies
  /\ response = NoResponse
  /\ AppIdle /\ MgdIdle /\ BtcIdle /\ DevIdle /\ GtsIdle /\ FrmIdle /\ SigIdle /\ PathIdle /\ SesIdle /\ HtsIdle /\ GtiIdle /\ TxiIdle /\ StxIdle /\ PhyIdle

NextDecode == \E d \in Decoders : Decode(d)

SpecDecode == InitDecode /\ [][NextDecode]_vars

\* The status word a raw reply of at least two bytes ends with.
TrailingStatus(buf) == readU16BE(Last2(buf))

(* C8: every decoder raises an APDU error whenever the last two bytes of    *)
(* the reply differ from 0x9000, whatever the reply's length (>= 2), and    *)
(* returns a decoded payload only when they equal 0x9000.                   *)
C8_TrailingStatusChecked ==
  (response.by \in Decoders /\ Len(data) >= 2) =>
    /\ (TrailingStatus(data) # 36864 => response.result.type = "APDUError")
    /\ (response.result.type = "APDUResponse" => TrailingStatus(data) = 36864)

(* C9: the status check raises nothing for 0x9000 and, for every other      *)
(* 16-bit value v, raises an APDUError whose code equals v.                 *)
C9_ErrorCodeIsStatusWord ==
  response.by = "throwError" =>
    LET v == data[1] * 256 + data[2] IN
    IF v = 36864 THEN response.result = NoError
    ELSE response.result.type = "APDUError" /\ response.result.code = v

(* C10: for a status word other than 0x9000 the error reads 'Internal       *)
(* error' exactly when the high byte is 0x6f, otherwise the message of the  *)
(* matching entry of the table, otherwise 'Unknown status code'.            *)
C10_ErrorClassification ==
  (response.by = "throwError" /\ data[1] * 256 + data[2] # 36864) =>
    LET v == data[1] * 256 + data[2]
        expected ==
          IF data[1] = 111 THEN "Internal error"
          ELSE CASE v = 26368 -> "Incorrect length"
                 [] v = 27010 -> "Invalid security status"
                 [] v = 27264 -> "Invalid data"
                 [] v = 27266 -> "File not found"
                 [] v = 27392 -> "Incorrect parameters"
                 [] v = 27013 -> "Conditions not satisfied"
                 [] v = 27904 -> "Instruction not supported (check app on the device)"
                 [] OTHER -> "Unknown status code"
    IN response.result.type = "APDUError" /\ response.result.message = expected


(***************************************************************************)
(*          LedgerBcoin: the instance lock, the calls, the session         *)
(***************************************************************************)

\* Top-level calls made on the one LedgerBcoin instance.
NCalls == 2
\* The caller's LedgerTXInput descriptors; a transaction spends some of them.
NInputs == 2

CallIds == 1..NCalls
InputIds == 1..NInputs

\* The calls that take this.lock, and the ones that do not.
TxKinds == {"signTransaction", "getTransactionSignatures"}
MessageKinds == {"signMessage", "signMessageLegacy"}
LockedKinds == TxKinds \cup MessageKinds
LockFreeKinds ==
  {"getPublicKey", "getPublicKeyWithParent", "getFingerPrint", "verifyMessage",
   "getFirmwareVersion", "getOperationMode", "setOperationMode", "randomBytes"}
Kinds == LockedKinds \cup LockFreeKinds

\* What an exchange can end with besides a 0x9000 reply. The callers tell one
\* failure from the others, status 0x6b00; "LedgerError" stands for every
\* other one, an APDU error with another status or an error of the transport.
ExchangeErrors == {"APDUError:6b00", "LedgerError"}

\* A descriptor as its constructor leaves it: nothing cached.
LedgerTXInput(witness, redeem) ==
  [witness |-> witness, redeem |-> redeem, publicKey |-> FALSE, trustedInput |-> FALSE]

\* The descriptors of the caller: a legacy one, a witness one, a P2SH one, ...
Descriptor(i) == LedgerTXInput(i % 3 = 2, i % 3 = 0)

\* new LedgerTXState({mtx, inputs, ledger}): the session before init().
NewSession(inputs) ==
  [ledger |-> TRUE, inputs |-> inputs, indexByInput |-> {},
   trustedInputs |-> {}, witness |-> FALSE, new |-> TRUE,
   initialized |-> FALSE, publicKeysDone |-> FALSE, trustedInputsDone |-> FALSE]

\* LedgerTXState.init(): the maps are filled, witness is set if any input is.
\* The transaction spends exactly the outpoints of the descriptors.
init(S, L) ==
  [S EXCEPT !.witness = \E i \in S.inputs : L[i].witness,
            !.indexByInput = S.inputs,
            !.initialized = TRUE]

\* LedgerTXState.destroy(), reset() included.
destroy(S) ==
  [S EXCEPT !.ledger = FALSE, !.inputs = {}, !.indexByInput = {},
            !.trustedInputs = {}, !.witness = FALSE, !.new = TRUE,
            !.initialized = FALSE, !.publicKeysDone = FALSE,
            !.trustedInputsDone = FALSE]

\* No session: a call that creates none, or one that has not started.
NoSession == destroy(NewSession({}))

\* The pending exchange of a call: the operation, the input it is for (0: none)
\* and whether it belongs to cacheWitnessInputs.
Pos(op, i, cache) == [op |-> op, i |-> i, cache |-> cache]
NoPos == Pos("none", 0, FALSE)

\* What the synchronous code between two exchanges leaves: the session, the
\* next exchange, or the end of the body (fin: "ok" or the error raised).
Await(S, pos) == [S |-> S, pos |-> pos, fin |-> Null]
Return(S) == [S |-> S, pos |-> NoPos, fin |-> "ok"]
Throw(S, e) == [S |-> S, pos |-> NoPos, fin |-> e]

\* for (const li of inputs): the first descriptor from k on among those in
\* need, 0 if none.
NextInput(k, need) ==
  LET rest == {i \in need : i >= k} IN
  IF rest = {} THEN 0 ELSE CHOOSE i \in rest : \A j \in rest : i <= j

\* _signTransaction / _getTransactionSignatures: the loop over ledgerInputs
\* from descriptor k on, and destroy() after the last one.
SignLoop(S, L, k) ==
  LET i == NextInput(k, S.inputs) IN
  IF i = 0 THEN Return(destroy(S))
  ELSE IF i \notin S.indexByInput THEN Throw(S, "AssertionError")
  ELSE Await(S, Pos("hashTransactionStart", i, FALSE))

\* A priming pass that does not look at this.witness.
cacheWitnessInputsAlways(S, L) ==
  IF ~S.initialized THEN Throw(S, "AssertionError")
  ELSE Await(S, Pos("hashTransactionStart", 0, TRUE))

\* LedgerTXState.cacheWitnessInputs()
cacheWitnessInputs(S, L) ==
  IF ~S.initialized THEN Throw(S, "AssertionError")
  ELSE IF ~S.witness THEN SignLoop(S, L, 1)
  ELSE Await(S, Pos("hashTransactionStart", 0, TRUE))

\* LedgerTXState.collectTrustedInputs(): the loop from descriptor k on.
TrustedLoop(S, L, k) ==
  LET need == {j \in S.inputs : ~(L[j].witness \/ L[j].redeem) /\ ~L[j].trustedInput}
      i == NextInput(k, need) IN
  IF i # 0 THEN Await(S, Pos("getTrustedInput", i, FALSE))
  ELSE cacheWitnessInputs([S EXCEPT !.trustedInputsDone = TRUE], L)

collectTrustedInputs(S, L) ==
  IF ~S.initialized THEN Throw(S, "AssertionError")
  ELSE IF S.trustedInputsDone THEN cacheWitnessInputs(S, L)
  ELSE TrustedLoop(S, L, 1)

\* LedgerTXState.collectPubkeys(): the loop from descriptor k on.
PubkeysLoop(S, L, k) ==
  LET need == {j \in S.inputs : ~L[j].publicKey}
      i == NextInput(k, need) IN
  IF i # 0 THEN Await(S, Pos("getPublicKey", i, FALSE))
  ELSE collectTrustedInputs([S EXCEPT !.publicKeysDone = TRUE], L)

collectPubkeys(S, L) ==
  IF ~S.initialized THEN Throw(S, "AssertionError")
  ELSE IF S.publicKeysDone THEN collectTrustedInputs(S, L)
  ELSE PubkeysLoop(S, L, 1)

\* The body of a call up to its first exchange; inputs are the descriptors
\* handed to a signing call.
Begin(kind, inputs, L) ==
  CASE kind \in TxKinds -> collectPubkeys(init(NewSession(inputs), L), L)
    [] kind = "signMessage" -> Await(NoSession, Pos("signMessagePrepare", 0, FALSE))
    [] kind = "signMessageLegacy" -> Await(NoSession, Pos("signMessagePrepare0", 0, FALSE))
    [] kind \in {"getPublicKey", "getPublicKeyWithParent", "getFingerPrint", "verifyMessage"} ->
         Await(NoSession, Pos("getPublicKey", 0, FALSE))
    [] kind = "getFirmwareVersion" -> Await(NoSession, Pos("getFirmwareVersion", 0, FALSE))
    [] kind = "getOperationMode" -> Await(NoSession, Pos("getOperationMode", 0, FALSE))
    [] kind = "setOperationMode" -> Await(NoSession, Pos("setOperationMode", 0, FALSE))
    [] kind = "randomBytes" -> Await(NoSession, Pos("getRandom", 0, FALSE))

\* The replies told apart for the pending exchange pos: status 0x6b00 matters
\* to the caller of signMessagePrepare only.
Replies(pos) ==
  IF pos.op = "signMessagePrepare" THEN {"ok"} \cup ExchangeErrors
  ELSE {"ok", "LedgerError"}

\* The body of a call from the reply to its pending exchange on; applied says
\* whether the step after it passes its assert (applySignature, 'PIN is required.').
Resume(kind, S, L, pos, reply, applied) ==
  LET Here(r) == [S |-> r.S, L |-> L, pos |-> r.pos, fin |-> r.fin]
      With(r, LL) == [S |-> r.S, L |-> LL, pos |-> r.pos, fin |-> r.fin] IN
  IF reply # "ok" THEN
    \* LedgerBTCApp.signMessage: only status 0x6b00 of the prepare is caught.
    IF kind = "signMessage" /\ pos.op = "signMessagePrepare" /\ reply = "APDUError:6b00"
    THEN Here(Await(S, Pos("signMessagePrepare0", 0, FALSE)))
    ELSE Here(Throw(S, reply))
  ELSE IF kind \in TxKinds THEN
    CASE pos.op = "getPublicKey" ->
           LET LL == [L EXCEPT ![pos.i].publicKey = TRUE] IN
           With(PubkeysLoop(S, LL, pos.i + 1), LL)
      [] pos.op = "getTrustedInput" ->
           LET LL == [L EXCEPT ![pos.i].trustedInput = TRUE]
               SS == [S EXCEPT !.trustedInputs = @ \cup {pos.i}] IN
           With(TrustedLoop(SS, LL, pos.i + 1), LL)
      [] pos.op = "hashTransactionStart" /\ pos.cache ->
           Here(Await(S, Pos("hashOutputFinalize", 0, TRUE)))
      [] pos.op = "hashOutputFinalize" /\ pos.cache ->
           Here(SignLoop([S EXCEPT !.new = FALSE], L, 1))
      [] pos.op = "hashTransactionStart" /\ ~pos.cache ->
           IF L[pos.i].witness
           THEN Here(Await(S, Pos("hashSign", pos.i, FALSE)))
           ELSE Here(Await(S, Pos("hashOutputFinalize", pos.i, FALSE)))
      [] pos.op = "hashOutputFinalize" /\ ~pos.cache ->
           Here(Await(S, Pos("hashSign", pos.i, FALSE)))
      [] pos.op = "hashSign" ->
           LET SS == [S EXCEPT !.new = FALSE] IN
           IF kind = "signTransaction" /\ ~applied
           THEN Here(Throw(SS, "AssertionError"))
           ELSE Here(SignLoop(SS, L, pos.i + 1))
  ELSE IF kind \in MessageKinds THEN
    IF pos.op = "signMessageFinal" THEN Here(Return(S))
    ELSE IF ~applied THEN Here(Throw(S, "AssertionError"))
    ELSE Here(Await(S, Pos("signMessageFinal", 0, FALSE)))
  ELSE IF kind = "getPublicKeyWithParent" /\ pos.op = "getPublicKey"
    THEN Here(Await(S, Pos("getFingerPrint", 0, FALSE)))
  ELSE Here(Return(S))

\* LedgerBTCApp.hashTransactionStart: the encoding chosen for input j.
InputMarker(j, tis, hasWitness) ==
  IF j \in tis THEN 1 ELSE IF hasWitness THEN 2 ELSE 0

\* What the pending hashTransactionStart of a session sends: cacheWitnessInputs
\* passes the whole transaction with an empty map, getSignature the one witness
\* input or the whole nullified transaction with the session's map.
hashTransactionStart(S, L, pos) ==
  LET single == ~pos.cache /\ L[pos.i].witness
      txInputs == IF single THEN {pos.i} ELSE S.indexByInput
      tis == IF pos.cache THEN {} ELSE S.trustedInputs
      hasWitness == IF pos.cache \/ single THEN S.witness ELSE FALSE IN
  [isNew |-> S.new, hasWitness |-> hasWitness,
   markers |-> [j \in txInputs |-> InputMarker(j, tis, hasWitness)]]

\* The runs of exchanges on the wire: a new run starts when the caller changes.
Turn(t, c, kind) ==
  IF t # <<>> /\ t[Len(t)].call = c THEN t
  ELSE Append(t, [call |-> c, locked |-> kind \in LockedKinds])

\* A lock that grants every request at once.
LockLockBroken(l, c) ==
  [l |-> [l EXCEPT !.busy = TRUE], granted |-> TRUE]

\* await this.lock.lock() (bmutex): granted at once when the lock is free,
\* queued behind the earlier requests when it is busy.
LockLock(l, c) ==
  IF l.busy THEN [l |-> [l EXCEPT !.jobs = Append(@, c)], granted |-> FALSE]
  ELSE [l |-> [l EXCEPT !.busy = TRUE], granted |-> TRUE]

\* An unlock() that wakes the job queued last.
UnlockLast(l) ==
  IF l.jobs = <<>> THEN [l |-> [busy |-> FALSE, jobs |-> <<>>], next |-> 0]
  ELSE [l |-> [busy |-> TRUE, jobs |-> SubSeq(l.jobs, 1, Len(l.jobs) - 1)],
        next |-> l.jobs[Len(l.jobs)]]

\* unlock() (bmutex): the lock goes to the first queued job, or is free.
Unlock(l) ==
  IF l.jobs = <<>> THEN [l |-> [busy |-> FALSE, jobs |-> <<>>], next |-> 0]
  ELSE [l |-> [busy |-> TRUE, jobs |-> Tail(l.jobs)], next |-> Head(l.jobs)]

\* A locked call that unlocks only when its body returned.
ReleaseOnReturn(l, kind, fin) ==
  IF kind \in LockedKinds /\ fin = "ok" THEN Unlock(l) ELSE [l |-> l, next |-> 0]

\* try { return await this._op() } finally { unlock() } of the locked calls;
\* fin is how the body ended.
Release(l, kind, fin) ==
  IF kind \in LockedKinds THEN Unlock(l) ELSE [l |-> l, next |-> 0]

IdleCall == [kind |-> "none", inputs |-> {}, pc |-> "idle", pos |-> NoPos, result |-> Null]

\* What is left of a call that completed: its outcome.
DoneCall(fin) == [kind |-> "none", inputs |-> {}, pc |-> "done", pos |-> NoPos, result |-> fin]

\* Call c is between acquiring and releasing this.lock.
Holding(c) == calls[c].kind \in LockedKinds /\ calls[c].pc = "running"

\* The descriptors a call of a kind can be handed: the first n of the caller's.
Arguments(kind) == IF kind \in TxKinds THEN {1..n : n \in InputIds} ELSE {{}}

\* The outcomes of the assert that follows the pending exchange, if one does.
Asserts(kind, pos) ==
  IF \/ kind = "signTransaction" /\ pos.op = "hashSign"
     \/ kind \in MessageKinds /\ pos.op \in {"signMessagePrepare", "signMessagePrepare0"}
  THEN BOOLEAN ELSE {TRUE}

\* The c-th call on the instance is made: a locked one requests this.lock and
\* waits if it is held, any other one runs up to its first exchange.
Start(c, kind, inputs) ==
  /\ calls[c].pc = "idle"
  /\ \A b \in 1..(c - 1) : calls[b].pc # "idle"
  /\ LET got == IF kind \in LockedKinds THEN LockLock(lock, c)
                ELSE [l |-> lock, granted |-> TRUE]
         b == Begin(kind, inputs, ledgerInputs) IN
     /\ lock' = got.l
     /\ IF got.granted
        THEN /\ calls' = [calls EXCEPT ![c] =
                  [kind |-> kind, inputs |-> inputs, pc |-> "running",
                   pos |-> b.pos, result |-> Null]]
             /\ sigstate' = [sigstate EXCEPT ![c] = b.S]
        ELSE /\ calls' = [calls EXCEPT ![c] =
                  [kind |-> kind, inputs |-> inputs, pc |-> "waiting",
                   pos |-> NoPos, result |-> Null]]
             /\ UNCHANGED sigstate
  /\ UNCHANGED <<ledgerInputs, turns, exceptApp>>

\* The pending exchange of call c reaches the device and is answered; the call
\* runs on to its next exchange or to its end, where a locked call unlocks and
\* the first waiting call runs up to its first exchange.
Exchange(c, reply, applied) ==
  /\ calls[c].pc = "running"
  /\ reply \in Replies(calls[c].pos)
  /\ applied \in Asserts(calls[c].kind, calls[c].pos)
  /\ LET kind == calls[c].kind
         r == Resume(kind, sigstate[c], ledgerInputs, calls[c].pos, reply, applied) IN
     /\ turns' = Turn(turns, c, kind)
     /\ ledgerInputs' = r.L
     /\ IF r.fin = Null
        THEN /\ calls' = [calls EXCEPT ![c].pos = r.pos]
             /\ sigstate' = [sigstate EXCEPT ![c] = r.S]
             /\ UNCHANGED lock
        ELSE LET rel == Release(lock, kind, r.fin)
                 d == rel.next
                 ended == [calls EXCEPT ![c] = DoneCall(r.fin)] IN
             /\ lock' = rel.l
             /\ IF d = 0
                THEN /\ calls' = ended
                     /\ sigstate' = [sigstate EXCEPT ![c] = r.S]
                ELSE LET b == Begin(calls[d].kind, calls[d].inputs, r.L) IN
                     /\ calls' = [ended EXCEPT ![d].pc = "running", ![d].pos = b.pos]
                     /\ sigstate' = [sigstate EXCEPT ![c] = r.S, ![d] = b.S]
  /\ UNCHANGED exceptApp

Init ==
  /\ lock = [busy |-> FALSE, jobs |-> <<>>]
  /\ calls = [c \in CallIds |-> IdleCall]
  /\ sigstate = [c \in CallIds |-> NoSession]
  /\ ledgerInputs = [i \in InputIds |-> Descriptor(i)]
  /\ turns = <<>>
  /\ ApduIdle /\ MgdIdle /\ BtcIdle /\ DevIdle /\ GtsIdle /\ FrmIdle /\ SigIdle /\ PathIdle /\ SesIdle /\ HtsIdle /\ GtiIdle /\ TxiIdle /\ StxIdle /\ PhyIdle

Next ==
  \E c \in CallIds :
    \/ \E kind \in Kinds : \E inputs \in Arguments(kind) : Start(c, kind, inputs)
    \/ \E reply \in {"ok"} \cup ExchangeErrors, applied \in BOOLEAN : Exchange(c, reply, applied)

Spec == Init /\ [][Next]_vars

\* The pending exchange of call c settles: with a device timeout above 0 every
\* exchange does (C37), so the scheduling guarantees this step to a running
\* call.
exchangeSettles(c) ==
  \E reply \in {"ok"} \cup ExchangeErrors, applied \in BOOLEAN : Exchange(c, reply, applied)

SpecFair == Spec /\ \A c \in CallIds : WF_vars(exchangeSettles(c))

\* Every call that was made completes, one waiting for this.lock included.
EveryCallCompletes ==
  \A c \in CallIds : (calls[c].pc \in {"running", "waiting"}) ~> (calls[c].pc = "done")

\* The calls whose exchanges reached the device, and the locked ones among them.
Exchanging == {turns[i].call : i \in DOMAIN turns}
LockedTurns == {i \in DOMAIN turns : turns[i].locked}

\* Locked calls queueing on the one instance: enough of them for two to wait
\* behind the holder.
NQueued == 3

QueuedIds == 1..NQueued

\* The first descriptor of the caller, for the signing calls among them.
QueuedArguments(kind) == IF kind \in TxKinds THEN {{1}} ELSE {{}}

InitQueue ==
  /\ lock = [busy |-> FALSE, jobs |-> <<>>]
  /\ calls = [c \in QueuedIds |-> IdleCall]
  /\ sigstate = [c \in QueuedIds |-> NoSession]
  /\ ledgerInputs = [i \in InputIds |-> Descriptor(i)]
  /\ turns = <<>>
  /\ ApduIdle /\ MgdIdle /\ BtcIdle /\ DevIdle /\ GtsIdle /\ FrmIdle /\ SigIdle /\ PathIdle /\ SesIdle /\ HtsIdle /\ GtiIdle /\ TxiIdle /\ StxIdle /\ PhyIdle

NextQueue ==
  \E c \in QueuedIds :
    \/ \E kind \in LockedKinds : \E inputs \in QueuedArguments(kind) : Start(c, kind, inputs)
    \/ \E reply \in {"ok"} \cup ExchangeErrors, applied \in BOOLEAN : Exchange(c, reply, applied)

SpecQueue == InitQueue /\ [][NextQueue]_vars

\* The place of the first exchange of call c on the wire, 0 if it sent none.
FirstTurn(c) ==
  LET its == {i \in DOMAIN turns : turns[i].call = c} IN
  IF its = {} THEN 0 ELSE CHOOSE i \in its : \A j \in its : i <= j

C1_LockedCallsNotInterleaved ==
  /\ Cardinality({c \in CallIds : Holding(c)}) <= 1
  /\ \A i \in LockedTurns, j \in LockedTurns, k \in LockedTurns :
       (i < j /\ j < k /\ turns[i].call = turns[k].call) => turns[j].call = turns[i].call

\* A locked call has sent exchanges while another locked call, made meanwhile,
\* waits for the lock.
C1_Witness ==
  \E a \in CallIds, b \in CallIds :
    /\ Holding(a) /\ a \in Exchanging
    /\ calls[b].pc = "waiting" /\ calls[b].kind \in LockedKinds

(* C2: while a signing call is in flight no exchange of any other call      *)
(* reaches the device between its first and its last exchange.              *)
C2_TransportOwnedByLockHolder ==
  \A i \in LockedTurns, j \in DOMAIN turns, k \in DOMAIN turns :
    (i < j /\ j < k /\ turns[i].call = turns[k].call) => turns[j].call = turns[i].call

(* C3: a lock-holding call that fails at any step ends with the error as    *)
(* its outcome and releases the lock: the lock is busy exactly while a      *)
(* locked call is running, every waiting call is queued behind a running    *)
(* one, and when the holder ends, with an error or not, the first waiting   *)
(* call runs in the same step.                                              *)
C3_LockReleasedOnError ==
  /\ [](/\ lock.busy <=> \E c \in CallIds : Holding(c)
        /\ \A c \in CallIds :
             /\ calls[c].pc = "waiting" <=> \E n \in DOMAIN lock.jobs : lock.jobs[n] = c
             /\ calls[c].pc = "waiting" => \E d \in CallIds : Holding(d)
             /\ calls[c].pc = "done" <=> calls[c].result # Null)
  /\ [][\A c \in CallIds :
          (Holding(c) /\ calls'[c].pc = "done") =>
            /\ calls'[c].result \in (Replies(calls[c].pos) \cup {"AssertionError"})
            /\ IF lock.jobs = <<>> THEN ~lock'.busy
               ELSE LET d == Head(lock.jobs) IN
                    /\ calls[d].pc = "waiting" /\ calls'[d].pc = "running"
                    /\ lock'.busy /\ lock'.jobs = Tail(lock.jobs)]_vars

\* A locked call has failed and the call that waited behind it is running.
C3_Witness ==
  \E i \in LockedTurns : \E d \in CallIds :
    /\ calls[turns[i].call].pc = "done"
    /\ calls[turns[i].call].result \in (ExchangeErrors \cup {"AssertionError"})
    /\ d # turns[i].call /\ Holding(d) /\ d \notin Exchanging
    /\ i = Len(turns)

(* C4: once collectTrustedInputs has returned, the session's trusted-input  *)
(* map holds every non-witness, non-redeem input of the session, and each   *)
(* such input goes to the hashTransactionStart of getSignature with marker  *)
(* 0x01, also in a later call that reuses the descriptors.                  *)
C4_TrustedInputsOfEveryLegacyInput ==
  \A c \in CallIds :
    LET S == sigstate[c]
        L == ledgerInputs
        pos == calls[c].pos
        legacy == {i \in S.inputs : ~(L[i].witness \/ L[i].redeem)} IN
    (calls[c].pc = "running" /\ S.trustedInputsDone) =>
      /\ legacy \subseteq S.trustedInputs
      /\ (pos.op = "hashTransactionStart" /\ ~pos.cache) =>
           LET sent == hashTransactionStart(S, L, pos) IN
           \A i \in legacy \cap DOMAIN sent.markers : sent.markers[i] = 1

(* C5: every signTransaction and getTransactionSignatures call has          *)
(* destroyed its session when it completes, whether it returned or raised.  *)
C5_SessionDestroyedAtCompletion ==
  \A c \in CallIds : calls[c].pc = "done" => sigstate[c] = destroy(sigstate[c])


(***************************************************************************)
(*        ManagedLedgerBcoin: open before, close after, over USBDevice     *)
(***************************************************************************)

\* Top-level calls made on the one ManagedLedgerBcoin instance.
NManaged == 2

ManagedIds == 1..NManaged

\* How the wrapped LedgerBcoin operation can fail on an open device.
OperationErrors == {"APDUError", "DeviceError"}

IdleManaged == [pc |-> "idle", error |-> Null, result |-> Null]

\* The managed call c settles: it returns, or raises e.
Settle(c, e) == [mcalls EXCEPT ![c].pc = "done", ![c].result = e]

\* ManagedLedgerBcoin.tryOpen(), called first by the c-th managed call:
\* nothing to do on an open device, otherwise USBDevice.open() runs up to
\* its first await.
tryOpen(c) ==
  /\ mcalls[c].pc = "idle"
  /\ \A b \in 1..(c - 1) : mcalls[b].pc # "idle"
  /\ mcalls' = [mcalls EXCEPT ![c].pc = IF usb.opened THEN "operation" ELSE "ensureSupport"]
  /\ UNCHANGED <<usb, exceptMgd>>

\* USBDevice.open() after ensureSupport(): enforce(this.opened === false),
\* then device.open() is requested.
ensureSupport(c) ==
  /\ mcalls[c].pc = "ensureSupport"
  /\ mcalls' = IF usb.opened THEN Settle(c, "Device is already open.")
               ELSE [mcalls EXCEPT ![c].pc = "device.open"]
  /\ UNCHANGED <<usb, exceptMgd>>

\* device.open() settles.
deviceOpen(c, ok) ==
  /\ mcalls[c].pc = "device.open"
  /\ IF ok THEN /\ usb' = [usb EXCEPT !.opened = TRUE]
                /\ mcalls' = [mcalls EXCEPT ![c].pc = "device.reset"]
     ELSE /\ mcalls' = Settle(c, "USBError")
          /\ UNCHANGED usb
  /\ UNCHANGED exceptMgd

\* device.selectConfiguration() and device.reset() of open() settle.
deviceReset(c, ok) ==
  /\ mcalls[c].pc = "device.reset"
  /\ mcalls' = IF ok THEN [mcalls EXCEPT ![c].pc = "claimInterface"]
               ELSE Settle(c, "USBError")
  /\ UNCHANGED <<usb, exceptMgd>>

\* device.claimInterface() settles: open() returns and the wrapped operation
\* starts, or the catch block requests device.close().
claimInterface(c, ok) ==
  /\ mcalls[c].pc = "claimInterface"
  /\ IF ok THEN /\ usb' = [usb EXCEPT !.claimed = usb.opened]
                /\ mcalls' = [mcalls EXCEPT ![c].pc = "operation"]
     ELSE /\ mcalls' = [mcalls EXCEPT ![c].pc = "catch.close"]
          /\ UNCHANGED usb
  /\ UNCHANGED exceptMgd

\* device.close() of the catch block settles; open() raises either way.
catchClose(c, ok) ==
  /\ mcalls[c].pc = "catch.close"
  /\ IF ok THEN /\ usb' = [opened |-> FALSE, claimed |-> FALSE]
                /\ mcalls' = Settle(c, "USB Interface not available.")
     ELSE /\ mcalls' = Settle(c, "USBError")
          /\ UNCHANGED usb
  /\ UNCHANGED exceptMgd

\* ManagedLedgerBcoin.tryClose() in the finally block, up to its first await:
\* nothing to do on a device that is not open, otherwise USBDevice.close()
\* requests releaseInterface(); e is the error of the wrapped operation, or Null.
tryClose(c, e) ==
  IF ~usb.opened
  THEN [mcalls EXCEPT ![c].pc = "done", ![c].error = e,
                      ![c].result = IF e = Null THEN "ok" ELSE e]
  ELSE [mcalls EXCEPT ![c].pc = "releaseInterface", ![c].error = e]

\* The wrapped operation this.bledger.X() settles with outcome e (Null: it
\* returned) and the finally block starts.
operation(c, e) ==
  /\ mcalls[c].pc = "operation"
  /\ IF usb.opened THEN e \in OperationErrors \cup {Null} ELSE e = "Device is not open"
  /\ mcalls' = tryClose(c, e)
  /\ UNCHANGED <<usb, exceptMgd>>

\* device.releaseInterface() of close() settles.
releaseInterface(c, ok) ==
  /\ mcalls[c].pc = "releaseInterface"
  /\ IF ok THEN /\ usb' = [usb EXCEPT !.claimed = FALSE]
                /\ mcalls' = [mcalls EXCEPT ![c].pc = "close.reset"]
     ELSE /\ mcalls' = Settle(c, "USBError")
          /\ UNCHANGED usb
  /\ UNCHANGED exceptMgd

\* device.reset() of close() settles.
closeReset(c, ok) ==
  /\ mcalls[c].pc = "close.reset"
  /\ mcalls' = IF ok THEN [mcalls EXCEPT ![c].pc = "device.close"]
               ELSE Settle(c, "USBError")
  /\ UNCHANGED <<usb, exceptMgd>>

\* device.close() of close() settles; the finally block is over and the call
\* returns the result or raises the error of the wrapped operation.
deviceClose(c, ok) ==
  /\ mcalls[c].pc = "device.close"
  /\ IF ok THEN /\ usb' = [opened |-> FALSE, claimed |-> FALSE]
                /\ mcalls' = Settle(c, IF mcalls[c].error = Null THEN "ok" ELSE mcalls[c].error)
     ELSE /\ mcalls' = Settle(c, "USBError")
          /\ UNCHANGED usb
  /\ UNCHANGED exceptMgd

InitManaged ==
  /\ usb = [opened |-> FALSE, claimed |-> FALSE]
  /\ mcalls = [c \in ManagedIds |-> IdleManaged]
  /\ ApduIdle /\ AppIdle /\ BtcIdle /\ DevIdle /\ GtsIdle /\ FrmIdle /\ SigIdle /\ PathIdle /\ SesIdle /\ HtsIdle /\ GtiIdle /\ TxiIdle /\ StxIdle /\ PhyIdle

NextManaged ==
  \E c \in ManagedIds :
    \/ tryOpen(c)
    \/ ensureSupport(c)
    \/ \E ok \in BOOLEAN : deviceOpen(c, ok)
    \/ \E ok \in BOOLEAN : deviceReset(c, ok)
    \/ \E ok \in BOOLEAN : claimInterface(c, ok)
    \/ \E ok \in BOOLEAN : catchClose(c, ok)
    \/ \E e \in OperationErrors \cup {Null, "Device is not open"} : operation(c, e)
    \/ \E ok \in BOOLEAN : releaseInterface(c, ok)
    \/ \E ok \in BOOLEAN : closeReset(c, ok)
    \/ \E ok \in BOOLEAN : deviceClose(c, ok)

SpecManaged == InitManaged /\ [][NextManaged]_vars

(* C6: once a managed call has completed, by returning or by raising, and   *)
(* no other call is in flight, the device is not open.                      *)
C6_DeviceClosedAfterCall ==
  (/\ \E c \in ManagedIds : mcalls[c].pc = "done"
   /\ \A c \in ManagedIds : mcalls[c].pc \in {"idle", "done"}) => ~usb.opened

(* C7: a managed call whose wrapped operation failed with error E raises    *)
(* that same E, also when the close attempt on the way out fails.           *)
C7_OriginalErrorRaised ==
  \A c \in ManagedIds :
    (mcalls[c].pc = "done" /\ mcalls[c].error # Null) => mcalls[c].result = mcalls[c].error


\* Where a managed call is inside USBDevice.open() and inside close().
OpeningStages == {"ensureSupport", "device.open", "device.reset", "claimInterface", "catch.close"}
ClosingStages == {"releaseInterface", "close.reset", "device.close"}

(* C35: for every interleaving of two concurrent managed calls open() is    *)
(* never invoked on a device that is open or being opened, and the device   *)
(* stays open until the last call in flight has sent its last exchange: no  *)
(* call closes it while another still runs its operation.                   *)
C35_OpenOnceCloseLast ==
  /\ Cardinality({c \in ManagedIds : mcalls[c].pc \in OpeningStages}) <= 1
  /\ \A c \in ManagedIds :
       mcalls[c].pc = "operation" =>
         /\ usb.opened
         /\ \A d \in ManagedIds \ {c} : mcalls[d].pc \notin OpeningStages \cup ClosingStages

(***************************************************************************)
(*      LedgerBTCApp: one operation, its packets and the raw replies       *)
(***************************************************************************)

\* The most packets one operation is split into (splitTransaction, splitBuffer).
MaxPackets == 2
\* The longest payload in front of the status word of a sampled raw reply.
MaxReplyData == 2

BtcOps ==
  {"getTrustedInput", "hashTransactionStart", "hashOutputFinalize",
   "signMessagePrepare", "signMessage", "signMessageLegacy"}

\* Where an operation is: sending the packets of a one-command operation, or
\* in the prepare, the legacy prepare or the final step of message signing.
Stages == {"packets", "prepare", "prepare0", "final"}

\* The status words of the sampled replies: 0x9000, 0x6b00, 0x6d00, 0x6985, 0.
WireStatuses == {<<144, 0>>, <<107, 0>>, <<109, 0>>, <<105, 133>>, <<0, 0>>}

RECURSIVE WirePayloads(_)
WirePayloads(n) ==
  IF n = 0 THEN {<<>>}
  ELSE LET shorter == WirePayloads(n - 1) IN
       shorter \cup {Append(p, b) : p \in {q \in shorter : Len(q) = n - 1}, b \in FillBytes}

\* What device.exchange() resolves with: a payload and a status word.
WireReplies == {p \o w : p \in WirePayloads(MaxReplyData), w \in WireStatuses}

\* device.exchange() rejects.
DeviceError == [type |-> "DeviceError"]

\* The outcome of awaiting device.exchange(): it rejected, or the raw reply.
Rejected == [failed |-> TRUE, bytes |-> <<>>]
Resolved(bytes) == [failed |-> FALSE, bytes |-> bytes]

\* No exchange of the operation was answered yet; the operation has not settled.
NoReply == [stage |-> "none", failed |-> FALSE, bytes |-> <<>>]
Pending == [type |-> "pending"]

\* An operation called with n packets to send; pin: the caller passed a PIN.
NewOperation(op, n, pin) ==
  [op |-> op, n |-> n, pin |-> pin,
   stage |-> CASE op \in {"signMessage", "signMessagePrepare"} -> "prepare"
               [] op = "signMessageLegacy" -> "prepare0"
               [] OTHER -> "packets",
   sent |-> 0, count |-> [g \in Stages |-> 0],
   reply |-> NoReply, buffer |-> <<>>, caught |-> NoError, result |-> Pending]

\* throw e / return v out of the operation.
Raise(b, e) == [b EXCEPT !.result = e]
Resolve(b, v) == [b EXCEPT !.result = [type |-> "return", data |-> v]]

\* The packet of the current stage goes out and res comes back.
Sent(b, res) ==
  [b EXCEPT !.sent = @ + 1, !.count[b.stage] = @ + 1,
            !.reply = [stage |-> b.stage, failed |-> res.failed, bytes |-> res.bytes]]

\* LedgerBTCApp.getTrustedInput: every reply is decoded, the last one returned.
getTrustedInput(b, res) ==
  IF res.failed THEN Raise(b, DeviceError)
  ELSE LET d == DecodeGetTrustedInput(res.bytes) IN
    IF d.type # "APDUResponse" THEN Raise(b, d)
    ELSE IF b.sent < b.n THEN b
    ELSE Resolve(b, d.data)

\* LedgerBTCApp.hashTransactionStart: for (const packet of packets).
hashTransactionStartPackets(b, res) ==
  IF res.failed THEN Raise(b, DeviceError)
  ELSE LET d == DecodeHashTransactionStart(res.bytes) IN
    IF d.type # "APDUResponse" THEN Raise(b, d)
    ELSE IF b.sent < b.n THEN b
    ELSE Resolve(b, <<>>)

\* LedgerBTCApp.hashOutputFinalize
hashOutputFinalize(b, res) ==
  IF res.failed THEN Raise(b, DeviceError)
  ELSE LET d == DecodeHashOutputFinalize(res.bytes) IN
    IF d.type # "APDUResponse" THEN Raise(b, d)
    ELSE IF b.sent < b.n THEN b
    ELSE Resolve(b, d.data)

\* LedgerBTCApp.signMessagePrepare: the encrypted output of the replies is
\* accumulated, the last reply carries the confirmation type.
signMessagePrepare(b, res) ==
  IF res.failed THEN Raise(b, DeviceError)
  ELSE LET d == DecodeSignMessage(res.bytes, b.buffer, b.sent = b.n) IN
    IF d.type # "APDUResponse" THEN Raise(b, d)
    ELSE IF b.sent < b.n THEN [b EXCEPT !.buffer = d.data.encryptedOutputData]
    ELSE Resolve(b, d.data)

\* LedgerBTCApp.signMessagePrepare0
signMessagePrepare0(b, res) ==
  IF res.failed THEN Raise(b, DeviceError)
  ELSE LET d == DecodeSignMessage0(res.bytes) IN
    IF d.type # "APDUResponse" THEN Raise(b, d) ELSE Resolve(b, d.data)

\* LedgerBTCApp.signMessageFinal
signMessageFinal(b, res) ==
  IF res.failed THEN Raise(b, DeviceError)
  ELSE LET d == DecodeSignMessageFinal(res.bytes) IN
    IF d.type # "APDUResponse" THEN Raise(b, d) ELSE Resolve(b, d.data)

\* e.code of an error: only an APDUError has a numeric one.
Code(e) == IF e.type = "APDUError" THEN e.code ELSE -2

\* A catch that also takes status 0x6d00 for old firmware.
IsOldFirmwareOrUnsupported(e) == Code(e) \in {27392, 27904}

\* catch (e) { if (e.code !== 0x6b00) throw e; ... }
IsOldFirmware(e) == Code(e) = 27392

\* if (result.confirmationNeeded) assert(typeof pin === 'string'), and on to
\* signMessageFinal.
Confirm(b, r) ==
  IF r.result.data.confirmationNeeded /\ ~b.pin THEN Raise(b, AssertionError)
  ELSE [b EXCEPT !.stage = "final", !.sent = 0]

\* LedgerBTCApp.signMessage and signMessageLegacy from the reply to the
\* pending exchange on.
signMessage(b, res) ==
  CASE b.stage = "prepare" ->
         LET r == signMessagePrepare(b, res) IN
         IF r.result = Pending THEN r
         ELSE IF r.result.type = "return" THEN Confirm(b, r)
         ELSE IF IsOldFirmware(r.result)
           THEN [b EXCEPT !.stage = "prepare0", !.sent = 0, !.caught = r.result]
         ELSE r
    [] b.stage = "prepare0" ->
         LET r == signMessagePrepare0(b, res) IN
         IF r.result.type = "return" THEN Confirm(b, r) ELSE r
    [] b.stage = "final" -> signMessageFinal(b, res)

\* The operation from the outcome of its pending exchange on.
Continue(b, res) ==
  CASE b.op = "getTrustedInput" -> getTrustedInput(b, res)
    [] b.op = "hashTransactionStart" -> hashTransactionStartPackets(b, res)
    [] b.op = "hashOutputFinalize" -> hashOutputFinalize(b, res)
    [] b.op = "signMessagePrepare" -> signMessagePrepare(b, res)
    [] b.op \in {"signMessage", "signMessageLegacy"} -> signMessage(b, res)

\* The pending exchange of the operation is answered with a raw reply.
BtcExchange(bytes) ==
  /\ btc.result = Pending
  /\ btc' = LET res == Resolved(bytes) IN Continue(Sent(btc, res), res)
  /\ UNCHANGED exceptBtc

\* The pending exchange of the operation fails in the transport.
BtcExchangeFails ==
  /\ btc.result = Pending
  /\ btc' = Continue(Sent(btc, Rejected), Rejected)
  /\ UNCHANGED exceptBtc

InitBtc ==
  /\ btc \in {NewOperation(op, n, pin) : op \in BtcOps, n \in 1..MaxPackets, pin \in BOOLEAN}
  /\ ApduIdle /\ AppIdle /\ MgdIdle /\ DevIdle /\ GtsIdle /\ FrmIdle /\ SigIdle /\ PathIdle /\ SesIdle /\ HtsIdle /\ GtiIdle /\ TxiIdle /\ StxIdle /\ PhyIdle

NextBtc ==
  \/ \E bytes \in WireReplies : BtcExchange(bytes)
  \/ BtcExchangeFails

SpecBtc == InitBtc /\ [][NextBtc]_vars

\* The status word the last answered exchange ended with; 0x9000 stands in when
\* none was answered or the transport failed.
RepliedStatus ==
  IF btc.reply.stage = "none" \/ btc.reply.failed THEN 36864
  ELSE TrailingStatus(btc.reply.bytes)

(* C11: once the device has answered an exchange of an operation with a     *)
(* status other than 0x9000, the operation has raised an APDU error and     *)
(* sends no further exchange; the one exception is signMessage, which goes  *)
(* on to the legacy prepare after status 0x6b00 of the prepare.             *)
C11_ErrorStopsOperation ==
  RepliedStatus # 36864 =>
    \/ btc.result.type = "APDUError"
    \/ /\ btc.op = "signMessage" /\ btc.reply.stage = "prepare"
       /\ RepliedStatus = 27392
       /\ btc.stage = "prepare0" /\ btc.result = Pending

(* C12: signMessage sends the non-legacy prepare first; the legacy prepare  *)
(* runs exactly when the non-legacy prepare failed with status 0x6b00, and  *)
(* only once; a prepare failure with any other status, and any failure of   *)
(* the legacy prepare or of the final step, settles the call with that      *)
(* error, after which nothing more is sent.                                 *)
C12_LegacyFallback ==
  /\ [](btc.op = "signMessage" =>
          /\ (btc.count["prepare0"] + btc.count["final"] > 0) => btc.count["prepare"] >= 1
          /\ btc.count["prepare0"] <= 1
          /\ (btc.count["prepare0"] = 1 \/ btc.stage = "prepare0")
               <=> (btc.caught.type = "APDUError" /\ btc.caught.code = 27392))
  /\ [][(btc.op = "signMessage" /\ btc' # btc) =>
          LET r == btc'.reply
              status == IF r.failed THEN 0 ELSE TrailingStatus(r.bytes) IN
          /\ btc.result = Pending
          /\ r.stage = btc.stage
          /\ (r.stage = "prepare" /\ status = 27392) =>
               (btc'.stage = "prepare0" /\ btc'.result = Pending /\ btc.count["prepare0"] = 0)
          /\ (status # 36864 /\ ~(r.stage = "prepare" /\ status = 27392)) =>
               IF r.failed THEN btc'.result = DeviceError
               ELSE btc'.result = throwError(Last2(r.bytes))
          /\ (btc'.stage = "prepare0" /\ btc.stage # "prepare0") =>
               (btc.stage = "prepare" /\ status = 27392)]_vars

\* signMessage fell back to the legacy prepare and returned a signature.
C12_Witness ==
  /\ btc.op = "signMessage" /\ btc.count["prepare0"] = 1
  /\ btc.caught.type = "APDUError"
  /\ btc.result.type = "return"


(***************************************************************************)
(*   One transport (USBDevice, HIDDevice, WebAuthnDevice) and its calls    *)
(***************************************************************************)

\* open(), close() and exchange() calls made on the one device.
NDeviceCalls == 2
\* The most packets a request is written in, and a response is read in.
MaxFrames == 2

\* Device.timeout as the constructor leaves it.
DEFAULT_TIMEOUT == 5000

DeviceCallIds == 1..NDeviceCalls
DeviceTypes == {"usb", "hid", "webauthn"}
DeviceOps == {"open", "close", "exchange"}

\* A call that was not made yet. seen is the value of this.opened its enforce
\* read; timer and read are the timer and the physical read of _readTimeout.
IdleDeviceCall ==
  [op |-> "none", pc |-> "idle", seen |-> FALSE, queued |-> FALSE,
   frames |-> 0, hidWrites |-> TRUE, wrote |-> 0, got |-> 0,
   timer |-> "none", read |-> "none", result |-> Null]

\* The call x settles: it returns ("ok") or raises e; its writer and reader
\* are gone.
Settled(x, e) ==
  [x EXCEPT !.pc = "done", !.result = e, !.frames = 0, !.got = 0, !.hidWrites = TRUE]

\* _readTimeout that awaits the read alone, whatever the timeout.
readTimeoutUnraced(x) ==
  [x EXCEPT !.pc = "read", !.read = "pending", !.timer = "none"]

\* _readTimeout with a timer that is armed whatever the timeout.
readTimeoutAlwaysArmed(x) ==
  [x EXCEPT !.pc = "read", !.read = "pending", !.timer = "armed"]

\* Device._readTimeout() up to its await: the read is requested, and raced
\* against a timer unless this.timeout is 0.
readTimeout(x) ==
  IF dev.timeout = 0 THEN [x EXCEPT !.pc = "read", !.read = "pending", !.timer = "none"]
  ELSE [x EXCEPT !.pc = "read", !.read = "pending", !.timer = "armed"]

\* _exchange(apdu) without the enforce of this.opened.
exchangeBodyUnchecked(x) ==
  CASE dev.type = "usb" -> [x EXCEPT !.seen = dev.opened, !.pc = "write"]
    [] dev.type = "hid" ->
         IF x.hidWrites THEN readTimeout([x EXCEPT !.seen = dev.opened, !.wrote = x.frames])
         ELSE Settled([x EXCEPT !.seen = dev.opened], "HIDError")
    [] dev.type = "webauthn" -> [x EXCEPT !.seen = dev.opened, !.wrote = 1, !.pc = "credentials"]

\* _exchange(apdu) up to its first await: the enforce, then the first write
\* (USB), all the writes and the first read (HID), or the credentials request.
exchangeBody(x) ==
  IF ~dev.opened THEN Settled([x EXCEPT !.seen = FALSE], "Device is not open")
  ELSE CASE dev.type = "usb" -> [x EXCEPT !.seen = TRUE, !.pc = "write"]
         [] dev.type = "hid" ->
              IF x.hidWrites THEN readTimeout([x EXCEPT !.seen = TRUE, !.wrote = x.frames])
              ELSE Settled([x EXCEPT !.seen = TRUE], "HIDError")
         [] dev.type = "webauthn" -> [x EXCEPT !.seen = TRUE, !.wrote = 1, !.pc = "credentials"]

\* An exchange() that does not wait for the lock.
deviceLockSkipped(l, c) == [l |-> [l EXCEPT !.busy = TRUE], granted |-> TRUE]

\* const unlock = await this.lock.lock() of exchange().
deviceLock(l, c) == LockLock(l, c)

\* finally { unlock() }: the lock goes to the first waiting exchange, whose
\* body runs up to its first await; if that body raises at once, on.
RECURSIVE deviceUnlock(_, _)
deviceUnlock(l, xs) ==
  LET u == Unlock(l) IN
  IF u.next = 0 THEN [l |-> u.l, xs |-> xs]
  ELSE LET x == exchangeBody(xs[u.next]) IN
       IF x.pc = "done" THEN deviceUnlock(u.l, [xs EXCEPT ![u.next] = x])
       ELSE [l |-> u.l, xs |-> [xs EXCEPT ![u.next] = x]]

\* The exchange of call c settles as x says and unlocks.
Finish(c, x) ==
  LET u == deviceUnlock(dev.lock, [xcalls EXCEPT ![c] = x]) IN
  /\ dev' = [dev EXCEPT !.lock = u.l]
  /\ xcalls' = u.xs

\* The c-th call is made now.
Called(c) ==
  /\ xcalls[c].pc = "idle"
  /\ \A b \in 1..(c - 1) : xcalls[b].pc # "idle"

\* open(): ok is whether new HID(path) succeeds.
deviceOpenCall(c, ok) ==
  /\ Called(c)
  /\ LET x == [xcalls[c] EXCEPT !.op = "open", !.seen = dev.opened] IN
     CASE dev.type = "usb" ->
            /\ ok
            /\ xcalls' = [xcalls EXCEPT ![c] =
                 IF dev.opened THEN Settled(x, "Device is already open.")
                 ELSE [x EXCEPT !.pc = "device.open"]]
            /\ UNCHANGED dev
       [] dev.type = "hid" ->
            IF dev.opened
            THEN /\ ok
                 /\ xcalls' = [xcalls EXCEPT ![c] = Settled(x, "Device is already open")]
                 /\ UNCHANGED dev
            ELSE IF dev.closed
            THEN /\ ok
                 /\ xcalls' = [xcalls EXCEPT ![c] = Settled(x, "Cant open closed device")]
                 /\ UNCHANGED dev
            ELSE IF ok
            THEN /\ xcalls' = [xcalls EXCEPT ![c] = Settled(x, "ok")]
                 /\ dev' = [dev EXCEPT !.opened = TRUE]
            ELSE /\ xcalls' = [xcalls EXCEPT ![c] = Settled(x, "HIDError")]
                 /\ UNCHANGED dev
       [] dev.type = "webauthn" ->
            /\ ok
            /\ IF dev.opened
               THEN /\ xcalls' = [xcalls EXCEPT ![c] = Settled(x, "Device is already open.")]
                    /\ UNCHANGED dev
               ELSE /\ xcalls' = [xcalls EXCEPT ![c] = Settled(x, "ok")]
                    /\ dev' = [dev EXCEPT !.opened = TRUE]
  /\ UNCHANGED exceptDev

\* close(): ok is whether the HID handle's close() succeeds.
deviceCloseCall(c, ok) ==
  /\ Called(c)
  /\ LET x == [xcalls[c] EXCEPT !.op = "close", !.seen = dev.opened] IN
     CASE dev.type = "usb" ->
            /\ ok
            /\ xcalls' = [xcalls EXCEPT ![c] =
                 IF ~dev.opened THEN Settled(x, "Device is not open.")
                 ELSE [x EXCEPT !.pc = "releaseInterface"]]
            /\ UNCHANGED dev
       [] dev.type = "hid" ->
            IF ~dev.opened
            THEN /\ ok
                 /\ xcalls' = [xcalls EXCEPT ![c] = Settled(x, "Device is not open")]
                 /\ UNCHANGED dev
            ELSE /\ dev' = [dev EXCEPT !.opened = FALSE, !.closed = TRUE]
                 /\ xcalls' = [xcalls EXCEPT ![c] = Settled(x, IF ok THEN "ok" ELSE "HIDError")]
       [] dev.type = "webauthn" ->
            /\ ok
            /\ IF ~dev.opened
               THEN /\ xcalls' = [xcalls EXCEPT ![c] = Settled(x, "Device is already closed.")]
                    /\ UNCHANGED dev
               ELSE /\ xcalls' = [xcalls EXCEPT ![c] = Settled(x, "ok")]
                    /\ dev' = [dev EXCEPT !.opened = FALSE]
  /\ UNCHANGED exceptDev

\* One await of USBDevice.open() or close() fails: the call raises.
usbFails(c) ==
  /\ xcalls' = [xcalls EXCEPT ![c] = Settled(@, "USBError")]
  /\ UNCHANGED dev

\* USBDevice.open(): device.open() settles.
usbDeviceOpen(c, ok) ==
  /\ dev.type = "usb"
  /\ xcalls[c].pc = "device.open"
  /\ IF ok THEN /\ dev' = [dev EXCEPT !.opened = TRUE]
                /\ xcalls' = [xcalls EXCEPT ![c].pc = "device.reset"]
     ELSE usbFails(c)
  /\ UNCHANGED exceptDev

\* USBDevice.open(): selectConfiguration() and reset() settle.
usbReset(c, ok) ==
  /\ dev.type = "usb"
  /\ xcalls[c].pc = "device.reset"
  /\ IF ok THEN /\ xcalls' = [xcalls EXCEPT ![c].pc = "claimInterface"]
                /\ UNCHANGED dev
     ELSE usbFails(c)
  /\ UNCHANGED exceptDev

\* USBDevice.open(): claimInterface() settles; open() returns, or the catch
\* block requests device.close().
usbClaimInterface(c, ok) ==
  /\ dev.type = "usb"
  /\ xcalls[c].pc = "claimInterface"
  /\ xcalls' = [xcalls EXCEPT ![c] =
       IF ok THEN Settled(@, "ok") ELSE [@ EXCEPT !.pc = "catch.close"]]
  /\ UNCHANGED <<dev, exceptDev>>

\* USBDevice.open(): device.close() of the catch block settles.
usbCatchClose(c, ok) ==
  /\ dev.type = "usb"
  /\ xcalls[c].pc = "catch.close"
  /\ IF ok
     THEN /\ dev' = [dev EXCEPT !.opened = FALSE]
          /\ xcalls' = [xcalls EXCEPT ![c] = Settled(@, "USB Interface not available.")]
     ELSE usbFails(c)
  /\ UNCHANGED exceptDev

\* USBDevice.close(): releaseInterface() settles.
usbReleaseInterface(c, ok) ==
  /\ dev.type = "usb"
  /\ xcalls[c].pc = "releaseInterface"
  /\ IF ok THEN /\ xcalls' = [xcalls EXCEPT ![c].pc = "close.reset"]
                /\ UNCHANGED dev
     ELSE usbFails(c)
  /\ UNCHANGED exceptDev

\* USBDevice.close(): reset() settles.
usbCloseReset(c, ok) ==
  /\ dev.type = "usb"
  /\ xcalls[c].pc = "close.reset"
  /\ IF ok THEN /\ xcalls' = [xcalls EXCEPT ![c].pc = "device.close"]
                /\ UNCHANGED dev
     ELSE usbFails(c)
  /\ UNCHANGED exceptDev

\* USBDevice.close(): device.close() settles.
usbDeviceClose(c, ok) ==
  /\ dev.type = "usb"
  /\ xcalls[c].pc = "device.close"
  /\ IF ok THEN /\ dev' = [dev EXCEPT !.opened = FALSE]
                /\ xcalls' = [xcalls EXCEPT ![c] = Settled(@, "ok")]
     ELSE usbFails(c)
  /\ UNCHANGED exceptDev

\* exchange(apdu) with a request of frames packets: the lock is requested and,
\* if it is free, the body runs up to its first await. hidWrites is whether
\* the synchronous writes of an HID device will succeed.
deviceExchangeCall(c, frames, hidWrites) ==
  /\ Called(c)
  /\ dev.type = "hid" \/ hidWrites
  /\ LET got == deviceLock(dev.lock, c)
         x == [xcalls[c] EXCEPT !.op = "exchange", !.frames = frames,
                                !.hidWrites = hidWrites] IN
     IF got.granted
     THEN LET y == exchangeBody(x) IN
          IF y.pc = "done"
          THEN /\ xcalls' = [xcalls EXCEPT ![c] = y]
               /\ UNCHANGED dev
          ELSE /\ xcalls' = [xcalls EXCEPT ![c] = y]
               /\ dev' = [dev EXCEPT !.lock = got.l]
     ELSE /\ xcalls' = [xcalls EXCEPT ![c] = [x EXCEPT !.pc = "waiting", !.queued = TRUE]]
          /\ dev' = [dev EXCEPT !.lock = got.l]
  /\ UNCHANGED exceptDev

\* await this._write(message) of USBDevice._exchange settles.
writeSettles(c, ok) ==
  /\ xcalls[c].pc = "write"
  /\ LET x == xcalls[c] IN
     IF ~ok THEN Finish(c, Settled(x, "USBError"))
     ELSE LET y == [x EXCEPT !.wrote = @ + 1] IN
          /\ xcalls' = [xcalls EXCEPT ![c] = IF y.wrote < y.frames THEN y ELSE readTimeout(y)]
          /\ UNCHANGED dev
  /\ UNCHANGED exceptDev

\* The read wins the race of _readTimeout: the timer is cleared and the packet
\* goes to reader.pushMessage, which raises, wants more or is finished.
readResolves(c, pushed) ==
  /\ xcalls[c].pc = "read"
  /\ pushed = "more" => xcalls[c].got + 1 < MaxFrames
  /\ LET x == [xcalls[c] EXCEPT !.read = "none", !.got = @ + 1,
                                !.timer = IF @ = "armed" THEN "cleared" ELSE @] IN
     CASE pushed = "more" -> /\ xcalls' = [xcalls EXCEPT ![c] = readTimeout(x)]
                             /\ UNCHANGED dev
       [] pushed = "finished" -> Finish(c, Settled(x, "ok"))
       [] pushed = "error" -> Finish(c, Settled(x, "ProtocolError"))
  /\ UNCHANGED exceptDev

\* The read of _readTimeout rejects first: the await raises before clearTimeout.
readRejects(c) ==
  /\ xcalls[c].pc = "read"
  /\ Finish(c, Settled([xcalls[c] EXCEPT !.read = "none"], "ReadError"))
  /\ UNCHANGED exceptDev

\* The timer of _readTimeout fires first: the race rejects, the read stays
\* requested and nobody awaits it.
timerFires(c) ==
  /\ xcalls[c].pc = "read"
  /\ xcalls[c].timer = "armed"
  /\ Finish(c, Settled([xcalls[c] EXCEPT !.timer = "fired"], "Read Timeout"))
  /\ UNCHANGED exceptDev

\* A timer that was never cleared fires after its exchange settled.
staleTimerFires(c) ==
  /\ xcalls[c].pc = "done"
  /\ xcalls[c].timer = "armed"
  /\ xcalls' = [xcalls EXCEPT ![c].timer = "fired"]
  /\ UNCHANGED <<dev, exceptDev>>

\* A read that lost the race settles after its exchange failed.
staleReadSettles(c) ==
  /\ xcalls[c].pc = "done"
  /\ xcalls[c].read = "pending"
  /\ xcalls' = [xcalls EXCEPT ![c].read = "none"]
  /\ UNCHANGED <<dev, exceptDev>>

\* navigator.credentials.get() of WebAuthnDevice._exchange settles.
credentialsSettle(c, ok) ==
  /\ xcalls[c].pc = "credentials"
  /\ Finish(c, Settled(xcalls[c], IF ok THEN "ok" ELSE "CredentialsError"))
  /\ UNCHANGED exceptDev

\* The device as earlier calls left it: never opened, open, or closed again
\* (an HID device remembers that it was closed); no call is in flight.
InitDevice ==
  /\ dev \in {[type |-> t, timeout |-> to, opened |-> o, closed |-> cl,
               lock |-> [busy |-> FALSE, jobs |-> <<>>]] :
              t \in DeviceTypes, to \in {0, DEFAULT_TIMEOUT},
              o \in BOOLEAN, cl \in BOOLEAN} \ {d \in
             [type : DeviceTypes, timeout : {0, DEFAULT_TIMEOUT}, opened : BOOLEAN,
              closed : BOOLEAN, lock : {[busy |-> FALSE, jobs |-> <<>>]}] :
             d.closed /\ (d.opened \/ d.type # "hid")}
  /\ xcalls = [c \in DeviceCallIds |-> IdleDeviceCall]
  /\ ApduIdle /\ AppIdle /\ MgdIdle /\ BtcIdle /\ GtsIdle /\ FrmIdle /\ SigIdle /\ PathIdle /\ SesIdle /\ HtsIdle /\ GtiIdle /\ TxiIdle /\ StxIdle /\ PhyIdle

NextDevice ==
  \E c \in DeviceCallIds :
    \/ \E ok \in BOOLEAN : deviceOpenCall(c, ok)
    \/ \E ok \in BOOLEAN : deviceCloseCall(c, ok)
    \/ \E ok \in BOOLEAN : usbDeviceOpen(c, ok)
    \/ \E ok \in BOOLEAN : usbReset(c, ok)
    \/ \E ok \in BOOLEAN : usbClaimInterface(c, ok)
    \/ \E ok \in BOOLEAN : usbCatchClose(c, ok)
    \/ \E ok \in BOOLEAN : usbReleaseInterface(c, ok)
    \/ \E ok \in BOOLEAN : usbCloseReset(c, ok)
    \/ \E ok \in BOOLEAN : usbDeviceClose(c, ok)
    \/ \E frames \in 1..MaxFrames, hidWrites \in BOOLEAN : deviceExchangeCall(c, frames, hidWrites)
    \/ \E ok \in BOOLEAN : writeSettles(c, ok)
    \/ \E pushed \in {"more", "finished", "error"} : readResolves(c, pushed)
    \/ readRejects(c)
    \/ timerFires(c)
    \/ staleTimerFires(c)
    \/ staleReadSettles(c)
    \/ \E ok \in BOOLEAN : credentialsSettle(c, ok)

SpecDevice == InitDevice /\ [][NextDevice]_vars

\* What the scheduling guarantees of the awaits of exchange c: a write handed
\* to the transport settles, a timer set with setTimeout fires unless it is
\* cleared, and navigator.credentials.get settles within the timeout it is
\* given. Nothing is guaranteed of a read: the device may never answer.
awaitSettles(c) ==
  \/ \E ok \in BOOLEAN : writeSettles(c, ok)
  \/ timerFires(c)
  \/ \E ok \in BOOLEAN : credentialsSettle(c, ok)

FairDevice == \A c \in DeviceCallIds : WF_vars(awaitSettles(c))

\* The devices that race their reads against a timer.
InitDeviceTimed == InitDevice /\ dev.timeout > 0

SpecDeviceFair == InitDeviceTimed /\ [][NextDevice]_vars /\ FairDevice

\* The exchanges between the start of their body and their settling.
OnWire ==
  {c \in DeviceCallIds :
     xcalls[c].op = "exchange" /\ xcalls[c].pc \in {"write", "read", "credentials"}}

(* C13: of the concurrent exchange() calls on one device at most one is     *)
(* between the start of its body and its settling, a waiting one has        *)
(* written nothing, and the lock is held exactly while one is in flight, so *)
(* it was released however the earlier one ended; a step that writes        *)
(* packets of one exchange leaves every other exchange not started,         *)
(* waiting or settled.                                                      *)
C13_ExchangesSerialised ==
  /\ [](/\ Cardinality(OnWire) <= 1
        /\ dev.lock.busy <=> OnWire # {}
        /\ \A c \in DeviceCallIds :
             /\ xcalls[c].pc = "waiting" <=> \E n \in DOMAIN dev.lock.jobs : dev.lock.jobs[n] = c
             /\ xcalls[c].pc = "waiting" => (xcalls[c].wrote = 0 /\ OnWire # {}))
  /\ [][\A c \in DeviceCallIds :
          xcalls'[c].wrote > xcalls[c].wrote =>
            \A b \in {e \in DeviceCallIds \ {c} : xcalls'[e].op = "exchange"} :
              /\ xcalls'[b].pc \in {"waiting", "done"}
              /\ xcalls'[b].pc = "waiting" => xcalls'[b].wrote = 0
              /\ xcalls'[b].pc = "done" => xcalls'[b].result # Null]_vars

\* An exchange failed with a read timeout after writing its request, and the
\* exchange that waited behind it has written its own.
C13_Witness ==
  \E a \in DeviceCallIds, b \in DeviceCallIds :
    /\ xcalls[a].op = "exchange" /\ xcalls[a].pc = "done"
    /\ xcalls[a].result = "Read Timeout" /\ xcalls[a].wrote > 0
    /\ xcalls[b].op = "exchange" /\ xcalls[b].queued /\ xcalls[b].wrote > 0

\* The exchange() calls that were made.
Exchanges == {c \in DeviceCallIds : xcalls[c].op = "exchange"}

(* C17: with a timeout above 0 every awaited read has a timer armed; when   *)
(* the timer fires first the exchange fails with 'Read Timeout' and the     *)
(* read is left requested with nobody awaiting it; when the read delivers   *)
(* its packet first the packet goes on to the reader and that timer is      *)
(* cleared; with timeout 0 no timer is ever armed, no exchange fails with   *)
(* 'Read Timeout', and a waiting read ends only by settling itself.         *)
C17_ReadRacesTimer ==
  /\ [](\A c \in Exchanges :
          /\ dev.timeout = 0 => (xcalls[c].timer = "none" /\ xcalls[c].result # "Read Timeout")
          /\ (dev.timeout > 0 /\ xcalls[c].pc = "read") => xcalls[c].timer = "armed"
          /\ xcalls[c].result = "Read Timeout" => (dev.timeout > 0 /\ xcalls[c].timer = "fired")
          /\ xcalls[c].result \in {"ok", "ProtocolError"} => xcalls[c].timer \in {"none", "cleared"})
  /\ [][\A c \in Exchanges :
          /\ (xcalls[c].pc = "read" /\ xcalls'[c].timer = "fired") =>
               /\ xcalls'[c].pc = "done" /\ xcalls'[c].result = "Read Timeout"
               /\ xcalls'[c].read = "pending" /\ xcalls'[c].got = 0
          /\ (xcalls[c].pc = "read" /\ xcalls'[c].pc = "read" /\ xcalls'[c] # xcalls[c]) =>
               /\ xcalls'[c].got = xcalls[c].got + 1
               /\ xcalls'[c].result = Null
          /\ (xcalls[c].pc = "read" /\ xcalls'[c].result = "ok") =>
               xcalls'[c].timer = IF dev.timeout = 0 THEN "none" ELSE "cleared"
          /\ (xcalls[c].pc = "read" /\ dev.timeout = 0 /\ xcalls'[c] # xcalls[c]) =>
               xcalls'[c].read # xcalls[c].read \/ xcalls'[c].got > xcalls[c].got]_vars

\* One exchange timed out with its read still requested; the next one read
\* its reply in time and its timer was cleared.
C17_Witness ==
  \E a \in Exchanges, b \in Exchanges :
    /\ xcalls[a].result = "Read Timeout" /\ xcalls[a].read = "pending"
    /\ xcalls[b].result = "ok" /\ xcalls[b].timer = "cleared"

Begins(c) == xcalls[c].pc \in {"idle", "waiting"} /\ xcalls'[c].pc \notin {"idle", "waiting"}

MaxTxInputs == 2
\* The most descriptors the caller passes.
MaxDescriptors == 3

\* Outpoint o <= tx.inputs.length is the prevout of the transaction's input
\* o - 1; the last outpoint is spent by no input of any transaction here.
Outpoints == 1..(MaxTxInputs + 1)
\* The ledgerInputs argument: descriptors named by their outpoint, in the
\* caller's order, repeated or foreign outpoints included.
DescriptorLists == UNION {[1..m -> Outpoints] : m \in 0..MaxDescriptors}

\* An empty item of new Array(n).
Hole == [outpoint |-> 0, at |-> 0]
\* new Array(tx.inputs.length); item index is kept at position index + 1.
NewArray(n) == [i \in 1..n |-> Hole]
\* What hashSign returned for the descriptor at position k of the list.
hashSignFor(g) == [outpoint |-> g.inputs[g.k], at |-> g.k]

\* mapTXInputs: indexByInput, prevout key -> index of the input.
mapTXInputs(n) == [o \in 1..n |-> o - 1]
\* getIndex(li) >= 0: Map.get gives undefined for a key it does not hold.
IndexFound(g) == g.inputs[g.k] \in DOMAIN mapTXInputs(g.n)
getIndex(g) == mapTXInputs(g.n)[g.inputs[g.k]]
\* How the call of getIndex(li) ends: it returns what Map.get gives and never
\* raises.
getIndexEnds(g) == IF IndexFound(g) THEN "returned index" ELSE "returned undefined"

Thrown(g, e) == [g EXCEPT !.pc = "done", !.result = e]

\* The head of the for loop: past the last descriptor destroy the session
\* and return the array, else look the index up and ask for the signature.
loopHead(g) ==
  IF g.k > Len(g.inputs)
    THEN [g EXCEPT !.pc = "done", !.result = "signatures"]
    ELSE IF ~IndexFound(g)
      THEN Thrown([g EXCEPT !.lookup = getIndexEnds(g)],
                  "Could not find ledger input index.")
      ELSE [g EXCEPT !.pc = "getSignature", !.lookup = getIndexEnds(g)]

storeSignatureOverwriting(g, sig) ==
  loopHead([g EXCEPT !.signatures[getIndex(g) + 1] = sig, !.k = @ + 1])
\* assert(!signatures[index]); signatures[index] = sig; next descriptor.
storeSignature(g, sig) ==
  IF g.signatures[getIndex(g) + 1] # Hole
    THEN Thrown(g, "Can not return same input twice.")
    ELSE loopHead([g EXCEPT !.signatures[getIndex(g) + 1] = sig, !.k = @ + 1])

\* sigstate.init() and the three collecting awaits; then the array is made
\* and the loop entered.
gtsCollect(ok) ==
  /\ gts.pc = "collect"
  /\ gts' = IF ok
              THEN loopHead([gts EXCEPT !.signatures = NewArray(gts.n), !.k = 1])
              ELSE Thrown(gts, "LedgerError")
  /\ UNCHANGED exceptGts

\* await sigstate.getSignature(li) settles: the device has signed (or an
\* exchange failed), and only then is the slot looked at.
gtsGetSignature(ok) ==
  /\ gts.pc = "getSignature"
  /\ gts' = IF ok
              THEN storeSignature([gts EXCEPT !.signed = @ + 1], hashSignFor(gts))
              ELSE Thrown(gts, "LedgerError")
  /\ UNCHANGED exceptGts

InitSignatures ==
  /\ \E n \in 1..MaxTxInputs, l \in DescriptorLists :
       gts = [n |-> n, inputs |-> l, pc |-> "collect", k |-> 0, signed |-> 0,
              signatures |-> <<>>, lookup |-> "none", result |-> "pending"]
  /\ ApduIdle /\ AppIdle /\ MgdIdle /\ BtcIdle /\ DevIdle /\ FrmIdle /\ SigIdle /\ PathIdle /\ SesIdle /\ HtsIdle /\ GtiIdle /\ TxiIdle /\ StxIdle /\ PhyIdle

NextSignatures ==
  \/ \E ok \in BOOLEAN : gtsCollect(ok)
  \/ \E ok \in BOOLEAN : gtsGetSignature(ok)

SpecSignatures == InitSignatures /\ [][NextSignatures]_vars

\* The positions of the list whose descriptor spends outpoint o.
DescriptorsOf(o) == {k \in DOMAIN gts.inputs : gts.inputs[k] = o}

(* C15: a returned array has one slot per transaction input; the slot of    *)
(* an input with a descriptor holds what hashSign returned for a descriptor *)
(* of that input's prevout, the slot of an input without one is empty; and  *)
(* a call whose list holds two descriptors of one input does not return: it *)
(* ends with an error.                                                      *)
C15_SignaturesByInputIndex ==
  /\ gts.result = "signatures" =>
       /\ Len(gts.signatures) = gts.n
       /\ \A i \in 1..gts.n :
            IF DescriptorsOf(i) = {}
              THEN gts.signatures[i] = Hole
              ELSE /\ gts.signatures[i].outpoint = i
                   /\ gts.signatures[i].at \in DescriptorsOf(i)
  /\ (gts.pc = "done" /\ \E i \in 1..gts.n : Cardinality(DescriptorsOf(i)) > 1) =>
       gts.result \in {"LedgerError", "Could not find ledger input index.",
                       "Can not return same input twice."}

\* A two-input transaction with one descriptor returned: one slot filled,
\* one left empty.
C15_Witness ==
  /\ gts.result = "signatures" /\ gts.n = 2
  /\ \E i \in 1..2, j \in 1..2 : gts.signatures[i] = Hole /\ gts.signatures[j] # Hole

(* C33: getIndex for an outpoint or descriptor that is not among the        *)
(* transaction's inputs raises a session-precondition error; in a signing   *)
(* call such a descriptor makes the call fail with 'Could not find ledger   *)
(* input index.' before any hashTransactionStart or hashSign exchange is    *)
(* sent for that descriptor.                                                *)
C33_UnmappedDescriptor ==
  \A k \in DOMAIN gts.inputs :
    (gts.inputs[k] \notin 1..gts.n /\ gts.k = k) =>
      /\ gts.lookup = "raised"
      /\ gts.pc = "done" /\ gts.result = "Could not find ledger input index."
      /\ gts.signed = k - 1

(***************************************************************************)
(*        ProtocolWriter / ProtocolReader: packets of one message          *)
(***************************************************************************)

\* The longest payload framed.
MaxData == 4
\* The largest packet size; the smallest must hold the header of packet 0.
MaxPacketSize == 9

\* channelID (2 bytes), tag (1), sequence index (2), and in packet 0 the
\* payload length (2).
SequenceHeader == 5
FirstHeader == 7

ChannelIDs == {257, 2}
Tags == {5, 0}
PacketSizes == FirstHeader..MaxPacketSize
\* Payload bytes: zero (the padding byte) and two others.
DataBytes == {0, 1, 255}
Datas == UNION {[1..n -> DataBytes] : n \in 0..MaxData}

writeU16BE(n) == <<n \div 256, n % 256>>
Take(bytes, n) == SubSeq(bytes, 1, IF n < Len(bytes) THEN n ELSE Len(bytes))
Drop(bytes, n) == SubSeq(bytes, n + 1, Len(bytes))
\* The rest of the packet is filled with zeros.
ZeroPad(bytes, size) == bytes \o [k \in 1..(size - Len(bytes)) |-> 0]
PacketHeader(w, i) == writeU16BE(w.channelID) \o <<w.tag>> \o writeU16BE(i)

\* Packets i, i + 1, ... carrying the rest of the payload.
RECURSIVE Continuations(_, _, _)
Continuations(w, rest, i) ==
  IF rest = <<>> THEN <<>>
  ELSE <<ZeroPad(PacketHeader(w, i) \o Take(rest, w.packetSize - SequenceHeader),
                 w.packetSize)>>
       \o Continuations(w, Drop(rest, w.packetSize - SequenceHeader), i + 1)

toMessagesUnnumbered(w) ==
  <<ZeroPad(PacketHeader(w, 0) \o writeU16BE(Len(w.data))
              \o Take(w.data, w.packetSize - FirstHeader), w.packetSize)>>
  \o Continuations(w, Drop(w.data, w.packetSize - FirstHeader), 0)
\* ProtocolWriter.toMessages(): packet 0 with the length, then continuations.
toMessages(w) ==
  <<ZeroPad(PacketHeader(w, 0) \o writeU16BE(Len(w.data))
              \o Take(w.data, w.packetSize - FirstHeader), w.packetSize)>>
  \o Continuations(w, Drop(w.data, w.packetSize - FirstHeader), 1)

\* new ProtocolReader({channelID, tag, packetSize}).
ProtocolReader(channelID, tag, packetSize) ==
  [channelID |-> channelID, tag |-> tag, packetSize |-> packetSize,
   state |-> "AWAITING_FIRST_PACKET", sequence |-> 0, length |-> 0,
   data |-> <<>>, error |-> "none"]

FramingError(r, e) == [r EXCEPT !.error = e]

\* The payload bytes of a packet the reader keeps: no more than are missing.
Accumulate(r, length, body) ==
  LET joined == r.data \o Take(body, length - Len(r.data)) IN
  [r EXCEPT !.length = length, !.data = joined, !.sequence = @ + 1,
            !.state = IF Len(joined) = length THEN "FINISHED" ELSE "ACCUMULATING"]

\* ProtocolReader.pushMessage(rawPacket).
pushMessage(r, packet) ==
  IF r.state = "FINISHED" THEN FramingError(r, "read past the declared length")
  ELSE IF readU16BE(SubSeq(packet, 1, 2)) # r.channelID THEN FramingError(r, "channel id")
  ELSE IF packet[3] # r.tag THEN FramingError(r, "tag")
  ELSE IF readU16BE(SubSeq(packet, 4, 5)) # r.sequence THEN FramingError(r, "sequence")
  ELSE IF r.sequence = 0
    THEN Accumulate(r, readU16BE(SubSeq(packet, 6, 7)), Drop(packet, FirstHeader))
    ELSE Accumulate(r, r.length, Drop(packet, SequenceHeader))

finished(r) == r.state = "FINISHED"
getData(r) == r.data

\* The next packet of the writer, in order, is pushed into the reader.
framePush ==
  /\ frm.pushed < Len(frm.messages)
  /\ frm.reader.error = "none"
  /\ frm' = [frm EXCEPT !.pushed = @ + 1,
                        !.reader = pushMessage(@, frm.messages[frm.pushed + 1])]
  /\ UNCHANGED exceptFrm

InitFraming ==
  /\ \E c \in ChannelIDs, t \in Tags, s \in PacketSizes, d \in Datas :
       LET w == [channelID |-> c, tag |-> t, data |-> d, packetSize |-> s] IN
       frm = [writer |-> w, messages |-> toMessages(w), pushed |-> 0,
              reader |-> ProtocolReader(c, t, s)]
  /\ ApduIdle /\ AppIdle /\ MgdIdle /\ BtcIdle /\ DevIdle /\ GtsIdle /\ SigIdle /\ PathIdle /\ SesIdle /\ HtsIdle /\ GtiIdle /\ TxiIdle /\ StxIdle /\ PhyIdle

NextFraming == framePush

SpecFraming == InitFraming /\ [][NextFraming]_vars

(* C16: pushing the writer's packets in order raises no framing error; the  *)
(* reader is finished after the last packet and not before; and getData()   *)
(* is then the payload that was written.                                    *)
C16_FramingRoundTrip ==
  /\ frm.reader.error = "none"
  /\ finished(frm.reader) <=> frm.pushed = Len(frm.messages)
  /\ finished(frm.reader) => getData(frm.reader) = frm.writer.data

\* A payload ending in a zero byte, split over three packets, read back.
C16_Witness ==
  /\ Len(frm.messages) = 3 /\ frm.pushed = 3 /\ finished(frm.reader)
  /\ Len(frm.writer.data) > 0 /\ frm.writer.data[Len(frm.writer.data)] = 0

(***************************************************************************)
(*                 LedgerSignature: serialisation formats                  *)
(***************************************************************************)

\* Size of the curve: r and s are SIZE bytes each.
SIZE == 32
\* The most leading zero bytes of the sampled r and s, short of SIZE - 1.
MaxLeadingZeros == 2

ZERO == [i \in 1..SIZE |-> 0]
\* A SIZE-byte number: z zero bytes, the byte h, then bytes f.
Scalar(z, h, f) == [i \in 1..SIZE |-> IF i <= z THEN 0 ELSE IF i = z + 1 THEN h ELSE f]
\* r and s as setR and setS accept them: the high bit set or not, leading
\* zeros, zero itself.
Scalars ==
  {Scalar(z, h, f) : z \in (0..MaxLeadingZeros) \cup {SIZE - 1},
                     h \in {1, 127, 128, 255}, f \in {0, 255}} \cup {ZERO}
Recids == 0..3

\* a ^ b and a & 0x03 on bytes, for b in 0..3.
Xor2(a, b) ==
  (((a % 2) + (b % 2)) % 2) + 2 * ((((a \div 2) % 2) + ((b \div 2) % 2)) % 2)
XorLow(byte, b) == byte - (byte % 4) + Xor2(byte % 4, b)
And3(byte) == byte % 4

\* new LedgerSignature() with setR, setS and setRecid applied.
LedgerSignature(r, s, recid) == [r |-> r, s |-> s, recid |-> recid]

\* The arguments of the constructor, or the options of fromOptions: r, s
\* and, when asked is not negative, the recovery id asked.
Options(r, s, asked) ==
  IF asked < 0 THEN [r |-> r, s |-> s] ELSE [r |-> r, s |-> s, recid |-> asked]
\* if (recid): the argument is there and is not 0.
Truthy(options) == "recid" \in DOMAIN options /\ options.recid # 0
\* new LedgerSignature(r, s, recid): recid is -1 unless if (recid) passes.
constructor(options) ==
  LedgerSignature(options.r, options.s, IF Truthy(options) THEN options.recid ELSE -1)
\* LedgerSignature.fromOptions(options): new this().fromOptions(options).
fromOptions(options) ==
  LedgerSignature(options.r, options.s, IF Truthy(options) THEN options.recid ELSE -1)

\* recover(msg, compress): null when recid < 0, else what secp256k1.recover
\* makes of r, s and recid.
recover(sig) ==
  IF sig.recid < 0 THEN [type |-> "null"] ELSE [type |-> "secp256k1.recover"]

\* encode(): R || S.    decode(data): r and s from R || S.
encode(sig) == sig.r \o sig.s
decode(sig, raw) ==
  IF Len(raw) # SIZE * 2 THEN AssertionError
  ELSE [sig EXCEPT !.r = SubSeq(raw, 1, SIZE), !.s = SubSeq(raw, SIZE + 1, SIZE * 2)]

\* A DER INTEGER of a big-endian number: no leading zero bytes, one zero
\* byte in front when the high bit is set.
RECURSIVE StripZeros(_)
StripZeros(bytes) ==
  IF Len(bytes) > 1 /\ bytes[1] = 0 THEN StripZeros(Tail(bytes)) ELSE bytes
derInteger(bytes) ==
  LET m == StripZeros(bytes) IN IF m[1] >= 128 THEN <<0>> \o m ELSE m
\* The number of a DER INTEGER, left-padded to SIZE bytes.
RECURSIVE LeftPad(_)
LeftPad(bytes) == IF Len(bytes) < SIZE THEN LeftPad(<<0>> \o bytes) ELSE bytes
\* secp256k1.toDER(R || S): SEQUENCE { INTEGER r, INTEGER s }.
toDER(sig) ==
  LET r == derInteger(sig.r)
      s == derInteger(sig.s) IN
  <<48, 4 + Len(r) + Len(s)>> \o <<2, Len(r)>> \o r \o <<2, Len(s)>> \o s
\* secp256k1.fromDER(der) and decode of what it returns.
fromDER(sig, der) ==
  LET rlen == der[4]
      r == SubSeq(der, 5, 4 + rlen)
      slen == der[6 + rlen]
      s == SubSeq(der, 7 + rlen, 6 + rlen + slen) IN
  decode(sig, LeftPad(StripZeros(r)) \o LeftPad(StripZeros(s)))

\* fromLedgerSignature(raw): recid from the low bits of the first byte,
\* which must then be 0x30; the rest is DER.
fromLedgerSignature(raw) ==
  LET recid == And3(raw[1])
      der == [raw EXCEPT ![1] = XorLow(raw[1], recid)] IN
  IF der[1] # 48 THEN AssertionError
  ELSE fromDER(LedgerSignature(ZERO, ZERO, recid), der)

\* The caller's buffer once fromLedgerSignature(raw) has returned or raised:
\* raw[0] ^= recid comes first, the second raw[0] ^= recid only after the
\* assert and fromDER have passed.
rawAfterFromLedgerSignature(raw) ==
  LET recid == And3(raw[1])
      der == [raw EXCEPT ![1] = XorLow(raw[1], recid)] IN
  IF fromLedgerSignature(raw) = AssertionError THEN der
  ELSE [der EXCEPT ![1] = XorLow(der[1], recid)]

toLedgerSignaturePlainDER(sig) == toDER(sig)
\* toLedgerSignature(): DER with the recid XORed into the first byte.
toLedgerSignature(sig) ==
  LET der == toDER(sig) IN
  IF sig.recid > 0 THEN [der EXCEPT ![1] = XorLow(der[1], sig.recid)] ELSE der

\* toCoreSignature(compressed): header byte, then R || S.
toCoreSignature(sig, compressed) ==
  <<sig.recid + 27 + (IF compressed THEN 4 ELSE 0)>> \o sig.r \o sig.s

\* fromCoreSignature(raw): recid from the header byte, r and s from the rest.
fromCoreSignature(raw) ==
  IF Len(raw) # SIZE * 2 + 1 THEN AssertionError
  ELSE decode(LedgerSignature(ZERO, ZERO, And3(raw[1] - 27)), Tail(raw))

NoSignature == [type |-> "none"]
\* First bytes of the buffers handed to fromLedgerSignature: 0x30 with each
\* recid, and bytes that are not 0x30 once the low two bits are removed.
FirstBytes == {48, 49, 50, 51, 52, 64, 65, 67}

\* sig.toLedgerSignature()
toLedgerSignatureCall ==
  /\ sgn.format = "none"
  /\ sgn' = [sgn EXCEPT !.format = "ledger", !.raw = toLedgerSignature(sgn.sig)]
  /\ UNCHANGED exceptSig

\* LedgerSignature.fromLedgerSignature(raw)
fromLedgerSignatureCall ==
  /\ sgn.format = "ledger" /\ sgn.back = NoSignature
  /\ sgn' = [sgn EXCEPT !.back = fromLedgerSignature(sgn.raw), !.given = sgn.raw,
                        !.raw = rawAfterFromLedgerSignature(sgn.raw)]
  /\ UNCHANGED exceptSig

\* LedgerSignature.fromLedgerSignature(raw) on a buffer of the caller's: a
\* serialised signature whose first byte is first.
fromLedgerSignatureOfBuffer(first) ==
  /\ sgn.format = "none"
  /\ LET raw == [toDER(sgn.sig) EXCEPT ![1] = first] IN
     sgn' = [sgn EXCEPT !.format = "buffer", !.given = raw,
                        !.back = fromLedgerSignature(raw),
                        !.raw = rawAfterFromLedgerSignature(raw)]
  /\ UNCHANGED exceptSig

\* sig.toCoreSignature(compressed)
toCoreSignatureCall(compressed) ==
  /\ sgn.format = "none"
  /\ sgn' = [sgn EXCEPT !.format = "core", !.compressed = compressed,
                        !.raw = toCoreSignature(sgn.sig, compressed)]
  /\ UNCHANGED exceptSig

\* LedgerSignature.fromCoreSignature(raw)
fromCoreSignatureCall ==
  /\ sgn.format = "core" /\ sgn.back = NoSignature
  /\ sgn' = [sgn EXCEPT !.back = fromCoreSignature(sgn.raw)]
  /\ UNCHANGED exceptSig

\* new LedgerSignature(r, s, recid) or LedgerSignature.fromOptions({r, s,
\* recid}) with the r and s at hand; asked < 0 stands for no recid given.
constructorCall(asked) ==
  /\ sgn.format = "none"
  /\ sgn' = [sgn EXCEPT !.format = "built", !.asked = asked,
                        !.sig = constructor(Options(sgn.sig.r, sgn.sig.s, asked))]
  /\ UNCHANGED exceptSig

fromOptionsCall(asked) ==
  /\ sgn.format = "none"
  /\ sgn' = [sgn EXCEPT !.format = "built", !.asked = asked,
                        !.sig = fromOptions(Options(sgn.sig.r, sgn.sig.s, asked))]
  /\ UNCHANGED exceptSig

\* sig.recover(hash, compress) on the signature just built.
recoverCall ==
  /\ sgn.format = "built" /\ sgn.back = NoSignature
  /\ sgn' = [sgn EXCEPT !.back = recover(sgn.sig)]
  /\ UNCHANGED exceptSig

InitSignature ==
  /\ \E r \in Scalars, s \in Scalars, recid \in Recids :
       sgn = [sig |-> LedgerSignature(r, s, recid), format |-> "none",
              compressed |-> TRUE, raw |-> <<>>, given |-> <<>>, asked |-> recid,
              back |-> NoSignature]
  /\ ApduIdle /\ AppIdle /\ MgdIdle /\ BtcIdle /\ DevIdle /\ GtsIdle /\ FrmIdle /\ PathIdle /\ SesIdle /\ HtsIdle /\ GtiIdle /\ TxiIdle /\ StxIdle /\ PhyIdle

NextSignature ==
  \/ toLedgerSignatureCall
  \/ fromLedgerSignatureCall
  \/ \E first \in FirstBytes : fromLedgerSignatureOfBuffer(first)
  \/ \E compressed \in BOOLEAN : toCoreSignatureCall(compressed)
  \/ fromCoreSignatureCall
  \/ \E asked \in -1..3 : constructorCall(asked)
  \/ \E asked \in -1..3 : fromOptionsCall(asked)
  \/ recoverCall

SpecSignature == InitSignature /\ [][NextSignature]_vars

(* C19: the first byte of toLedgerSignature(sig) is 0x30 XOR recid, and     *)
(* fromLedgerSignature of those bytes is a signature with the r, s and      *)
(* recid of sig.                                                            *)
C19_LedgerSignatureRoundTrip ==
  /\ sgn.format = "ledger" =>
       /\ sgn.raw[1] = XorLow(48, sgn.sig.recid)
       /\ And3(sgn.raw[1]) = sgn.sig.recid
  /\ (sgn.format = "ledger" /\ sgn.back # NoSignature) => sgn.back = sgn.sig

\* A signature whose r has its high bit set and whose s starts with zero
\* bytes, with recid 3, read back from its Ledger serialisation.
C19_Witness ==
  /\ sgn.format = "ledger" /\ sgn.back = sgn.sig
  /\ sgn.sig.recid = 3 /\ sgn.sig.r[1] >= 128 /\ sgn.sig.s[1] = 0 /\ sgn.sig.s # ZERO

(* C20: the header byte of toCoreSignature(sig, compressed) is 27 + recid,  *)
(* plus 4 if compressed, and fromCoreSignature of those bytes gives back    *)
(* the r, s and recid of sig and the compressed flag.                       *)
C20_CoreSignatureRoundTrip ==
  /\ sgn.format = "core" =>
       sgn.raw[1] = 27 + sgn.sig.recid + (IF sgn.compressed THEN 4 ELSE 0)
  /\ (sgn.format = "core" /\ sgn.back # NoSignature) =>
       /\ sgn.back.r = sgn.sig.r /\ sgn.back.s = sgn.sig.s
       /\ sgn.back.recid = sgn.sig.recid
       /\ "compressed" \in DOMAIN sgn.back
       /\ sgn.back.compressed = sgn.compressed

(* C21: once fromLedgerSignature(raw) has returned or raised, the caller's  *)
(* buffer holds the bytes it held before the call.                          *)
C21_BufferRestored ==
  (sgn.format \in {"ledger", "buffer"} /\ sgn.back # NoSignature) => sgn.raw = sgn.given

(* C22: a signature built by the constructor or by fromOptions with a       *)
(* recovery id k in 0..3 has recid = k, one built without a recovery id has *)
(* recid = -1, and recover() returns null for the latter and only for it.   *)
C22_RecidAsBuilt ==
  sgn.format = "built" =>
    /\ sgn.asked >= 0 => sgn.sig.recid = sgn.asked
    /\ sgn.asked < 0 => sgn.sig.recid = -1
    /\ sgn.back # NoSignature => (sgn.back = [type |-> "null"] <=> sgn.asked < 0)

(***************************************************************************)
(*                     parsePath: derivation paths                         *)
(***************************************************************************)

\* Numbers are kept as two halves, hi * 2^16 + lo with lo below 2^16, so that
\* ten decimal digits fit: a number is a u32 exactly when hi is below 2^16.
Number(hi, lo) == [hi |-> hi, lo |-> lo]
\* Index at which hardening begins: 0x80000000.
HARDENED == Number(32768, 0)
\* The most segments after the root.
MaxSegments == 2

\* Strings are sequences of characters.
Digits == <<"0", "1", "2", "3", "4", "5", "6", "7", "8", "9">>
IsDigit(c) == \E k \in DOMAIN Digits : Digits[k] = c
DigitValue(c) == (CHOOSE k \in DOMAIN Digits : Digits[k] = c) - 1

\* The roots tried: the four parsePath accepts, another letter, nothing.
Roots == {<<"m">>, <<"M">>, <<"m", "'">>, <<"M", "'">>, <<"x">>, <<>>}
\* The segments tried, each with what it is meant to say: whether it ends
\* with an apostrophe, whether the rest is all digits (and at least one),
\* how many characters the rest has, and its decimal value (in halves).
Segments ==
  {
     [text |-> <<"0">>, apostrophe |-> FALSE, numeric |-> TRUE, digits |-> 1, value |-> [hi |-> 0, lo |-> 0]],
     [text |-> <<"4", "4", "'">>, apostrophe |-> TRUE, numeric |-> TRUE, digits |-> 2, value |-> [hi |-> 0, lo |-> 44]],
     [text |-> <<"0", "0", "7">>, apostrophe |-> FALSE, numeric |-> TRUE, digits |-> 3, value |-> [hi |-> 0, lo |-> 7]],
     [text |-> <<"2", "1", "4", "7", "4", "8", "3", "6", "4", "7">>, apostrophe |-> FALSE, numeric |-> TRUE, digits |-> 10, value |-> [hi |-> 32767, lo |-> 65535]],
     [text |-> <<"2", "1", "4", "7", "4", "8", "3", "6", "4", "8">>, apostrophe |-> FALSE, numeric |-> TRUE, digits |-> 10, value |-> [hi |-> 32768, lo |-> 0]],
     [text |-> <<"2", "1", "4", "7", "4", "8", "3", "6", "4", "8", "'">>, apostrophe |-> TRUE, numeric |-> TRUE, digits |-> 10, value |-> [hi |-> 32768, lo |-> 0]],
     [text |-> <<"4", "2", "9", "4", "9", "6", "7", "2", "9", "5", "'">>, apostrophe |-> TRUE, numeric |-> TRUE, digits |-> 10, value |-> [hi |-> 65535, lo |-> 65535]],
     [text |-> <<"4", "2", "9", "4", "9", "6", "7", "2", "9", "6">>, apostrophe |-> FALSE, numeric |-> TRUE, digits |-> 10, value |-> [hi |-> 65536, lo |-> 0]],
     [text |-> <<"9", "9", "9", "9", "9", "9", "9", "9", "9", "9">>, apostrophe |-> FALSE, numeric |-> TRUE, digits |-> 10, value |-> [hi |-> 152587, lo |-> 58367]],
     [text |-> <<"0", "0", "0", "0", "0", "0", "0", "0", "0", "0", "1">>, apostrophe |-> FALSE, numeric |-> TRUE, digits |-> 11, value |-> [hi |-> 0, lo |-> 1]],
     [text |-> <<>>, apostrophe |-> FALSE, numeric |-> FALSE, digits |-> 0, value |-> [hi |-> 0, lo |-> 0]],
     [text |-> <<"'">>, apostrophe |-> TRUE, numeric |-> FALSE, digits |-> 0, value |-> [hi |-> 0, lo |-> 0]],
     [text |-> <<"1", "a">>, apostrophe |-> FALSE, numeric |-> FALSE, digits |-> 2, value |-> [hi |-> 0, lo |-> 0]],
     [text |-> <<"-", "1">>, apostrophe |-> FALSE, numeric |-> FALSE, digits |-> 2, value |-> [hi |-> 0, lo |-> 0]],
     [text |-> <<"1", "'", "'">>, apostrophe |-> TRUE, numeric |-> FALSE, digits |-> 2, value |-> [hi |-> 0, lo |-> 0]]}
SegmentLists == UNION {[1..n -> Segments] : n \in 0..MaxSegments}

\* root/segment/segment...
RECURSIVE Joined(_, _)
Joined(root, segments) ==
  IF segments = <<>> THEN root
  ELSE Joined(root \o <<"/">> \o Head(segments).text, Tail(segments))

\* path.split('/')
RECURSIVE split(_)
split(chars) ==
  IF \A i \in DOMAIN chars : chars[i] # "/" THEN <<chars>>
  ELSE LET i == CHOOSE i \in DOMAIN chars :
                  chars[i] = "/" /\ \A j \in 1..(i - 1) : chars[j] # "/" IN
       <<SubSeq(chars, 1, i - 1)>> \o split(SubSeq(chars, i + 1, Len(chars)))

\* parseInt(part, 10) of a string of digits.
RECURSIVE parseInt(_)
parseInt(part) ==
  IF part = <<>> THEN Number(0, 0)
  ELSE LET high == parseInt(SubSeq(part, 1, Len(part) - 1))
           low == high.lo * 10 + DigitValue(part[Len(part)]) IN
       Number(high.hi * 10 + (low \div 65536), low % 65536)

\* index >>> 0,  (index | HARDENED) >>> 0,  index & HARDENED as a condition.
ToUint32(index) == Number(index.hi % 65536, index.lo)
OrHardened(index) ==
  IF (index.hi \div HARDENED.hi) % 2 = 1 THEN index
  ELSE Number(index.hi + HARDENED.hi, index.lo)
AndHardened(index) == (index.hi \div HARDENED.hi) % 2 = 1

Failed(message) == [error |-> message, index |-> Number(0, 0)]

parsePartAnyHardened(text, hard) ==
  LET hardened == text # <<>> /\ text[Len(text)] = "'"
      part == IF hardened THEN SubSeq(text, 1, Len(text) - 1) ELSE text IN
  IF Len(part) > 10 THEN Failed("Path index too large.")
  ELSE IF part = <<>> \/ \E i \in DOMAIN part : ~IsDigit(part[i])
    THEN Failed("Path index is non-numeric.")
  ELSE IF ToUint32(parseInt(part)) # parseInt(part) THEN Failed("Path index out of range.")
  ELSE [error |-> "none",
        index |-> IF hardened THEN OrHardened(parseInt(part)) ELSE parseInt(part)]
\* The body of the for loop: one part to an index, or the error thrown.
parsePart(text, hard) ==
  LET hardened == text # <<>> /\ text[Len(text)] = "'"
      part == IF hardened THEN SubSeq(text, 1, Len(text) - 1) ELSE text
      index == IF hardened THEN OrHardened(parseInt(part)) ELSE parseInt(part) IN
  IF Len(part) > 10 THEN Failed("Path index too large.")
  ELSE IF part = <<>> \/ \E i \in DOMAIN part : ~IsDigit(part[i])
    THEN Failed("Path index is non-numeric.")
  ELSE IF ToUint32(parseInt(part)) # parseInt(part) THEN Failed("Path index out of range.")
  ELSE IF ~hard /\ AndHardened(index) THEN Failed("Path index cannot be hardened.")
  ELSE [error |-> "none", index |-> index]

\* for (let i = 1; i < parts.length; i++): the indexes pushed, until a throw.
RECURSIVE parseParts(_, _, _)
parseParts(parts, hard, result) ==
  IF parts = <<>> THEN [error |-> "none", indexes |-> result]
  ELSE LET one == parsePart(Head(parts), hard) IN
       IF one.error # "none" THEN [error |-> one.error, indexes |-> <<>>]
       ELSE parseParts(Tail(parts), hard, Append(result, one.index))

parsePath(path, hard) ==
  IF Len(path) < 1 \/ Len(path) > 3062 THEN [error |-> "AssertionError", indexes |-> <<>>]
  ELSE LET parts == split(path) IN
       IF Head(parts) \notin {<<"m">>, <<"M">>, <<"m", "'">>, <<"M", "'">>}
         THEN [error |-> "Invalid path root.", indexes |-> <<>>]
         ELSE parseParts(Tail(parts), hard, <<>>)

NotParsed == [error |-> "not called", indexes |-> <<>>]

parsePathCall ==
  /\ pth.result = NotParsed
  /\ pth' = [pth EXCEPT !.result = parsePath(pth.path, pth.hard)]
  /\ UNCHANGED exceptPath

InitPath ==
  /\ \E root \in Roots, segments \in SegmentLists, hard \in BOOLEAN :
       pth = [root |-> root, segments |-> segments, hard |-> hard,
              path |-> Joined(root, segments), result |-> NotParsed]
  /\ ApduIdle /\ AppIdle /\ MgdIdle /\ BtcIdle /\ DevIdle /\ SigIdle /\ FrmIdle /\ GtsIdle /\ SesIdle /\ HtsIdle /\ GtiIdle /\ TxiIdle /\ StxIdle /\ PhyIdle

NextPath == parsePathCall

SpecPath == InitPath /\ [][NextPath]_vars

\* The index a segment stands for: its value, with bit 31 set when it ends
\* with an apostrophe.
IndexOf(segment) ==
  IF segment.apostrophe /\ segment.value.hi < 32768
    THEN Number(segment.value.hi + 32768, segment.value.lo) ELSE segment.value
\* A segment parsePath must refuse.
Refused(segment, hard) ==
  \/ ~segment.numeric
  \/ segment.digits > 10
  \/ segment.value.hi > 65535
  \/ ~hard /\ IndexOf(segment).hi >= 32768

(* C23: parsePath raises exactly when the root is not m, M, m' or M' or a   *)
(* segment is non-numeric, longer than 10 digits, above 2^32 - 1 or, with   *)
(* hard false, has bit 31 set in its index; otherwise it returns one index  *)
(* per segment, the segment's value with bit 31 set for an apostrophe, each *)
(* in 0..2^32 - 1; the root alone gives the empty list.                     *)
C23_ParsePath ==
  pth.result # NotParsed =>
    LET raises == \/ pth.root \notin {<<"m">>, <<"M">>, <<"m", "'">>, <<"M", "'">>}
                  \/ \E i \in DOMAIN pth.segments : Refused(pth.segments[i], pth.hard) IN
    /\ pth.result.error # "none" <=> raises
    /\ pth.result.error = "none" =>
         /\ Len(pth.result.indexes) = Len(pth.segments)
         /\ \A i \in DOMAIN pth.segments :
              /\ pth.result.indexes[i] = IndexOf(pth.segments[i])
              /\ pth.result.indexes[i].hi \in 0..65535
              /\ pth.result.indexes[i].lo \in 0..65535

\* m/44'/2147483647 parsed with hard = TRUE: a hardened and a plain index.
C23_Witness ==
  /\ pth.result.error = "none" /\ pth.hard /\ Len(pth.result.indexes) = 2
  /\ pth.result.indexes[1] = Number(32768, 44)
  /\ pth.result.indexes[2] = Number(32767, 65535)

(***************************************************************************)
(*      LedgerTXState: one session, its methods called in any order        *)
(***************************************************************************)

\* Method calls made on the one session.
MaxOps == 3

\* The methods of a session that talk to the device.
DeviceMethods ==
  {"collectPubkeys", "collectTrustedInputs", "cacheWitnessInputs", "getSignature"}

\* What the device answers to a packet of hashTransactionStart,
\* hashOutputFinalize or hashSign: 0x9000, a refusal, and the refusal behind
\* one more byte.
SessionReplies ==
  {Resolved(<<144, 0>>), Resolved(<<105, 133>>), Resolved(<<1, 105, 133>>)}

\* LedgerTXState.reset()
reset(S) == [S EXCEPT !.publicKeysDone = FALSE, !.trustedInputsDone = FALSE]

\* this.new = false, left out.
consumeStale(S) == S
\* this.new = false
consume(S) == [S EXCEPT !.new = FALSE]

\* A loop without "if (li.publicKey) continue".
pubkeysFromAll(S, L, k) ==
  LET i == NextInput(k, S.inputs) IN
  IF i # 0 THEN Await(S, Pos("getPublicKey", i, FALSE))
  ELSE Return([S EXCEPT !.publicKeysDone = TRUE])

\* collectPubkeys: the loop from descriptor k on.
pubkeysFrom(S, L, k) ==
  LET i == NextInput(k, {j \in S.inputs : ~L[j].publicKey}) IN
  IF i # 0 THEN Await(S, Pos("getPublicKey", i, FALSE))
  ELSE Return([S EXCEPT !.publicKeysDone = TRUE])

\* collectTrustedInputs: the loop from descriptor k on.
trustedInputsFrom(S, L, k) ==
  LET i == NextInput(k, {j \in S.inputs :
                           ~(L[j].witness \/ L[j].redeem) /\ ~L[j].trustedInput}) IN
  IF i # 0 THEN Await(S, Pos("getTrustedInput", i, FALSE))
  ELSE Return([S EXCEPT !.trustedInputsDone = TRUE])

\* A device method up to its first await: the asserts and the early returns.
\* getSignature has no assert on this.initialized; this.ledger is null after
\* destroy() and the property access raises.
methodEntry(S, L, method, i) ==
  IF method = "getSignature"
    THEN IF ~S.ledger THEN Throw(S, "TypeError")
         ELSE Await(S, Pos("hashTransactionStart", i, FALSE))
  ELSE IF ~S.initialized THEN Throw(S, "AssertionError")
  ELSE CASE method = "collectPubkeys" ->
              IF S.publicKeysDone THEN Return(S) ELSE pubkeysFrom(S, L, 1)
         [] method = "collectTrustedInputs" ->
              IF S.trustedInputsDone THEN Return(S) ELSE trustedInputsFrom(S, L, 1)
         [] method = "cacheWitnessInputs" ->
              IF ~S.witness THEN Return(S)
              ELSE Await(S, Pos("hashTransactionStart", 0, TRUE))

\* The descriptors after the awaited call of LedgerBTCApp has returned.
descriptorsAfter(L, pos) ==
  CASE pos.op = "getPublicKey" -> [L EXCEPT ![pos.i].publicKey = TRUE]
    [] pos.op = "getTrustedInput" -> [L EXCEPT ![pos.i].trustedInput = TRUE]
    [] OTHER -> L

\* A device method from the return of the awaited call of LedgerBTCApp to its
\* next await or its end.
methodResume(S, L, method, pos) ==
  CASE pos.op = "getPublicKey" -> pubkeysFrom(S, descriptorsAfter(L, pos), pos.i + 1)
    [] pos.op = "getTrustedInput" ->
         trustedInputsFrom([S EXCEPT !.trustedInputs = @ \cup {pos.i}],
                           descriptorsAfter(L, pos), pos.i + 1)
    [] pos.op = "hashTransactionStart" ->
         IF pos.cache \/ ~L[pos.i].witness
           THEN Await(S, Pos("hashOutputFinalize", pos.i, pos.cache))
           ELSE Await(S, Pos("hashSign", pos.i, FALSE))
    [] pos.op = "hashOutputFinalize" ->
         IF pos.cache THEN Return(consume(S))
         ELSE Await(S, Pos("hashSign", pos.i, FALSE))
    [] pos.op = "hashSign" -> Return(consume(S))

\* What LedgerBTCApp makes of the reply to one packet: the error it raises,
\* or "ok".
packetOutcome(op, res) ==
  IF res.failed THEN "DeviceError"
  ELSE LET d == CASE op = "hashTransactionStart" -> DecodeHashTransactionStart(res.bytes)
                  [] op = "hashOutputFinalize" -> DecodeHashOutputFinalize(res.bytes)
                  [] op = "hashSign" -> DecodeHashSign(res.bytes) IN
       IF d.type = "APDUResponse" THEN "ok" ELSE d.type

\* The device answered the exchange with 0x9000.
answeredOK(res) ==
  ~res.failed /\ Len(res.bytes) >= 2 /\ TrailingStatus(res.bytes) = SW_OK

\* The bookkeeping of a step of the session: the session and the descriptors
\* it leaves, the call of LedgerBTCApp it awaits or its outcome, and the
\* history the properties are stated over.
Entered(s, r, L) ==
  [s EXCEPT
     !.S = r.S, !.L = L, !.pos = r.pos, !.k = 0,
     !.pc = IF r.fin = Null THEN "await" ELSE "idle",
     !.outcome = r.fin,
     !.starts = IF r.pos.op = "hashTransactionStart"
                  THEN Append(@, [call |-> hashTransactionStart(r.S, L, r.pos),
                                  cache |-> r.pos.cache, signed |-> s.signed,
                                  failures |-> s.failures])
                  ELSE @,
     !.done = IF r.fin = "ok" THEN @ \cup {s.op} ELSE @,
     !.signed = @ \/ (r.fin = "ok" /\ s.pc = "await"
                       /\ s.op \in {"cacheWitnessInputs", "getSignature"}),
     !.failures = @ \/ (r.fin \notin {Null, "ok"} /\ s.pc = "await")]

\* A call of a method on the idle session.
Invoked(s, method, i) ==
  [s EXCEPT !.op = method, !.i = i, !.sent = <<>>, !.refused = FALSE, !.ops = @ + 1]

\* session.init(): raises when the session has no ledger or is initialized.
sesInit ==
  /\ ses.pc = "idle" /\ ses.ops < MaxOps
  /\ LET s == Invoked(ses, "init", 0) IN
     ses' = IF ses.S.ledger /\ ~ses.S.initialized
              THEN Entered(s, Return(init(ses.S, ses.L)), ses.L)
              ELSE Entered(s, Throw(ses.S, "AssertionError"), ses.L)
  /\ UNCHANGED exceptSes

\* session.reset()
sesReset ==
  /\ ses.pc = "idle" /\ ses.ops < MaxOps
  /\ ses' = [Entered(Invoked(ses, "reset", 0), Return(reset(ses.S)), ses.L)
               EXCEPT !.done = @ \ {"collectPubkeys", "collectTrustedInputs", "reset"}]
  /\ UNCHANGED exceptSes

\* session.destroy()
sesDestroy ==
  /\ ses.pc = "idle" /\ ses.ops < MaxOps
  /\ ses' = [Entered(Invoked(ses, "destroy", 0), Return(destroy(ses.S)), ses.L)
               EXCEPT !.done = {}, !.signed = FALSE, !.failures = FALSE]
  /\ UNCHANGED exceptSes

\* session.collectPubkeys(), collectTrustedInputs(), cacheWitnessInputs() or
\* getSignature(li) up to its first await.
sesCall(method, i) ==
  /\ ses.pc = "idle" /\ ses.ops < MaxOps
  /\ (method = "getSignature") = (i # 0)
  /\ ses' = Entered(Invoked(ses, method, i), methodEntry(ses.S, ses.L, method, i), ses.L)
  /\ UNCHANGED exceptSes

\* getPublicKey or getTrustedInput returns or raises.
sesAnswered(ok) ==
  /\ ses.pc = "await" /\ ses.pos.op \in {"getPublicKey", "getTrustedInput"}
  /\ LET s == [ses EXCEPT !.sent = Append(@, ses.pos), !.refused = @ \/ ~ok] IN
     ses' = IF ok THEN Entered(s, methodResume(ses.S, ses.L, ses.op, ses.pos),
                               descriptorsAfter(ses.L, ses.pos))
            ELSE Entered(s, Throw(ses.S, "LedgerError"), ses.L)
  /\ UNCHANGED exceptSes

\* The device answers a packet of hashTransactionStart, hashOutputFinalize or
\* hashSign; last: the call of LedgerBTCApp has no packet after this one.
sesReplied(res, last) ==
  /\ ses.pc = "await"
  /\ ses.pos.op \in {"hashTransactionStart", "hashOutputFinalize", "hashSign"}
  /\ last \/ (ses.pos.op # "hashSign" /\ ses.k + 1 < MaxPackets)
  /\ LET out == packetOutcome(ses.pos.op, res)
         s == [ses EXCEPT !.sent = Append(@, ses.pos),
                          !.refused = @ \/ ~answeredOK(res)] IN
     ses' = IF out # "ok" THEN Entered(s, Throw(ses.S, out), ses.L)
            ELSE IF ~last THEN [s EXCEPT !.k = @ + 1]
            ELSE Entered(s, methodResume(ses.S, ses.L, ses.op, ses.pos), ses.L)
  /\ UNCHANGED exceptSes

\* The caller's descriptors, those of reused as an earlier session left them:
\* with the public key and, for a legacy input, the trusted input.
CachedDescriptors(reused) ==
  [i \in InputIds |->
     IF i \notin reused THEN Descriptor(i)
     ELSE [Descriptor(i) EXCEPT !.publicKey = TRUE,
                                !.trustedInput = ~(Descriptor(i).witness \/ Descriptor(i).redeem)]]

InitSession ==
  /\ \E reused \in SUBSET InputIds :
       ses = [S |-> NewSession(InputIds), L |-> CachedDescriptors(reused),
              op |-> "none", i |-> 0, pc |-> "idle", pos |-> NoPos, k |-> 0,
              outcome |-> Null, sent |-> <<>>, refused |-> FALSE,
              starts |-> <<>>, done |-> {},
              signed |-> FALSE, failures |-> FALSE, ops |-> 0]
  /\ ApduIdle /\ AppIdle /\ MgdIdle /\ BtcIdle /\ DevIdle /\ SigIdle /\ FrmIdle /\ GtsIdle /\ PathIdle /\ HtsIdle /\ GtiIdle /\ TxiIdle /\ StxIdle /\ PhyIdle

NextSession ==
  \/ sesInit
  \/ sesReset
  \/ sesDestroy
  \/ \E method \in DeviceMethods, i \in 0..NInputs : sesCall(method, i)
  \/ \E ok \in BOOLEAN : sesAnswered(ok)
  \/ \E res \in SessionReplies, last \in BOOLEAN : sesReplied(res, last)

SpecSession == InitSession /\ [][NextSession]_vars

\* A step that completes cacheWitnessInputs past its early return, or
\* getSignature, successfully.
ConsumingStep ==
  /\ ses.pc = "await" /\ ses'.pc = "idle" /\ ses'.outcome = "ok"
  /\ ses.op \in {"cacheWitnessInputs", "getSignature"}

\* The fresh flag: true from construction, cleared by exactly the steps that
\* complete a cacheWitnessInputs that found a witness input or a getSignature,
\* set again by destroy() only.
FreshFlagSteps ==
  /\ (~ses.S.new /\ ses'.S.new) => ses'.op = "destroy"
  /\ (ses.S.new /\ ~ses'.S.new) => ConsumingStep
  /\ ConsumingStep => ~ses'.S.new
  /\ (ses.op = "cacheWitnessInputs" /\ ConsumingStep) => ses.S.witness

C25_CacheWitnessInputsOnce ==
  ~(/\ ses.op = "cacheWitnessInputs" /\ "cacheWitnessInputs" \in ses.done
    /\ ses.pc = "await")

\* The descriptors of the session that lack what the pending exchange fetches.
Lacking(op) ==
  IF op = "getPublicKey" THEN {j \in ses.S.inputs : ~ses.L[j].publicKey}
  ELSE {j \in ses.S.inputs :
          ~(ses.L[j].witness \/ ses.L[j].redeem) /\ ~ses.L[j].trustedInput}

\* The exchange each collector issues.
Fetches(method) ==
  IF method = "collectPubkeys" THEN "getPublicKey" ELSE "getTrustedInput"

\* A call of a collector that has completed since construction or the last
\* reset(): it returns at once, nothing sent, nothing changed.
RepeatedCollectStep ==
  (/\ ses.pc = "idle" /\ ses'.ops = ses.ops + 1
   /\ ses'.op \in {"collectPubkeys", "collectTrustedInputs"}
   /\ ses'.op \in ses.done)
  => /\ ses'.pc = "idle" /\ ses'.outcome = "ok" /\ ses'.sent = <<>>
     /\ ses'.S = ses.S /\ ses'.L = ses.L

\* A step of a collector: the value of a descriptor is cached by the answered
\* exchange for that descriptor and by nothing else.
CollectStep ==
  \A j \in InputIds :
    /\ (~ses.L[j].publicKey /\ ses'.L[j].publicKey) =>
         /\ ses.pc = "await" /\ ses.op = "collectPubkeys"
         /\ ses.pos = Pos("getPublicKey", j, FALSE)
    /\ (~ses.L[j].trustedInput /\ ses'.L[j].trustedInput) =>
         /\ ses.pc = "await" /\ ses.op = "collectTrustedInputs"
         /\ ses.pos = Pos("getTrustedInput", j, FALSE)

\* A collector at rest or at an await: the exchange it awaits is for a
\* descriptor that lacks the value, it has issued at most one exchange per
\* descriptor, and when it returns no descriptor lacks the value.
CollectState ==
  ses.op \in {"collectPubkeys", "collectTrustedInputs"} =>
    /\ \A m, n \in DOMAIN ses.sent : m < n => ses.sent[m].i < ses.sent[n].i
    /\ \A n \in DOMAIN ses.sent : ses.sent[n].op = Fetches(ses.op)
    /\ ses.pc = "await" =>
         /\ ses.pos.op = Fetches(ses.op)
         /\ ses.pos.i \in Lacking(ses.pos.op)
         /\ \A j \in Lacking(ses.pos.op) : j >= ses.pos.i
    /\ (ses.pc = "idle" /\ ses.outcome = "ok") => Lacking(Fetches(ses.op)) = {}

(* C26: after collectPubkeys (collectTrustedInputs) has completed in a      *)
(* session, every later call of it issues no exchange and changes neither   *)
(* the session nor the descriptors, until reset() or destroy(); the first   *)
(* call issues exactly one exchange per input that lacks the cached value   *)
(* (for collectTrustedInputs: per legacy input without a trusted input) and *)
(* none for an input that has it.                                           *)
C26_CollectOnce ==
  /\ [][RepeatedCollectStep /\ CollectStep]_vars
  /\ []CollectState

\* collectPubkeys has fetched the key of the one descriptor that lacked it,
\* and a second call has returned without an exchange.
C26_Witness ==
  /\ ses.op = "collectPubkeys" /\ ses.pc = "idle" /\ ses.outcome = "ok"
  /\ ses.sent = <<>> /\ ses.ops = 3
  /\ ses.S.publicKeysDone
  /\ \E j \in InputIds : ~CachedDescriptors({1})[j].publicKey /\ ses.L[j].publicKey
  /\ ses.L[1].trustedInput

(* C27: collectPubkeys, collectTrustedInputs, cacheWitnessInputs and        *)
(* getSignature raise and issue no device exchange when they are called on  *)
(* a session that is not initialized: before init() or after destroy().     *)
C27_UninitializedRaises ==
  (ses.op \in DeviceMethods /\ ~ses.S.initialized) =>
    /\ ses.pc = "idle" /\ ses.sent = <<>>
    /\ ses.outcome \in {"AssertionError", "TypeError"}

\* The place of an exchange in the sequence of getSignature.
Rank(op) ==
  CASE op = "hashTransactionStart" -> 1
    [] op = "hashOutputFinalize" -> 2
    [] op = "hashSign" -> 3
    [] OTHER -> 0

\* The exchanges of the running getSignature, the pending one included.
Issued ==
  IF ses.pc = "await" THEN Append(ses.sent, ses.pos) ELSE ses.sent

(* C29: getSignature issues, for a legacy input, the hashTransactionStart   *)
(* packets, then the hashOutputFinalize packets, then exactly one hashSign; *)
(* for a witness input the hashTransactionStart packets, then exactly one   *)
(* hashSign and no hashOutputFinalize; hashSign is never sent unless every  *)
(* exchange before it was answered with 0x9000.                             *)
C29_GetSignatureOrder ==
  ses.op = "getSignature" =>
    LET signs == {n \in DOMAIN Issued : Issued[n].op = "hashSign"}
        finals == {n \in DOMAIN Issued : Issued[n].op = "hashOutputFinalize"} IN
    /\ \A n \in DOMAIN Issued :
         /\ Rank(Issued[n].op) > 0 /\ Issued[n].i = ses.i /\ ~Issued[n].cache
         /\ \A m \in 1..(n - 1) : Rank(Issued[m].op) <= Rank(Issued[n].op)
    /\ Issued # <<>> => Issued[1].op = "hashTransactionStart"
    /\ Cardinality(signs) <= 1
    /\ ses.L[ses.i].witness => finals = {}
    /\ (~ses.L[ses.i].witness /\ signs # {}) => finals # {}
    /\ (ses.pc = "idle" /\ ses.outcome = "ok") => signs = {Len(Issued)}
    /\ (ses.pc = "await" /\ ses.pos.op = "hashSign") => ~ses.refused

\* The phase of a signing run its pending exchange belongs to: the public
\* keys, the trusted inputs, the two halves of the priming pass, the inputs.
Phase(pos) ==
  CASE pos.op = "getPublicKey" -> 1
    [] pos.op = "getTrustedInput" -> 2
    [] pos.op = "hashTransactionStart" /\ pos.cache -> 3
    [] pos.op = "hashOutputFinalize" /\ pos.cache -> 4
    [] OTHER -> 5

\* One step of the signing run c: the phase it leaves and the one it enters.
PhaseStep(c) ==
  LET from == IF calls[c].pc = "running" THEN Phase(calls[c].pos) ELSE 0
      to == Phase(calls'[c].pos)
      witness == \E i \in calls'[c].inputs : ledgerInputs'[i].witness IN
  (calls'[c] # calls[c] /\ calls'[c].pc = "running" /\ calls'[c].kind \in TxKinds) =>
    /\ to >= from
    /\ to = 3 => from < 3 /\ witness
    /\ to = 4 => from = 3
    /\ (to = 5 /\ from < 5) => (from = 4 /\ witness) \/ (from < 3 /\ ~witness)
    /\ (to = 5 /\ calls'[c].pos.op = "hashSign") => from = 5

(* C28: in every signTransaction and getTransactionSignatures run all       *)
(* getPublicKey exchanges precede all getTrustedInput exchanges, these      *)
(* precede the priming pass (hashTransactionStart, then hashOutputFinalize, *)
(* over the whole transaction) and the pass precedes the first hashSign;    *)
(* the pass is sent if and only if a descriptor of the run is a witness     *)
(* input.                                                                   *)
C28_RunOrder == [][\A c \in CallIds : PhaseStep(c)]_vars

\* A run over a legacy and a witness descriptor has fetched the public keys
\* and the trusted input, has sent the priming pass and asks for the first
\* signature.
C28_Witness ==
  \E c \in CallIds :
    /\ calls[c].kind \in TxKinds /\ calls[c].pc = "running"
    /\ calls[c].pos = Pos("hashSign", 1, FALSE)
    /\ sigstate[c].witness /\ ~sigstate[c].new
    /\ sigstate[c].publicKeysDone /\ sigstate[c].trustedInputs = {1}

(***************************************************************************)
(*        LedgerBTCApp.hashTransactionStart: the packets of one call       *)
(***************************************************************************)

\* Packets utilTX.splitBuffer makes of the script of one input, at most.
MaxScriptBlocks == 2

CLA_GENERAL == 224
INS_UNTRUSTED_HASH_TX_INPUT_START == 68

\* An APDUCommand whose p2 ignores hasWitness.
APDUCommandHashTransactionStartLegacy(payload, first, isNew, witness) ==
  [cla |-> CLA_GENERAL, ins |-> INS_UNTRUSTED_HASH_TX_INPUT_START,
   p1 |-> IF first THEN 0 ELSE 128,
   p2 |-> IF isNew THEN 0 ELSE 128,
   data |-> payload]

\* APDUCommand.hashTransactionStart(data, first, isNew, witness)
APDUCommandHashTransactionStart(payload, first, isNew, witness) ==
  [cla |-> CLA_GENERAL, ins |-> INS_UNTRUSTED_HASH_TX_INPUT_START,
   p1 |-> IF first THEN 0 ELSE 128,
   p2 |-> IF isNew /\ witness THEN 2 ELSE IF isNew THEN 0 ELSE 128,
   data |-> payload]

\* The inputs of the transaction handed to the call: whether tis holds a
\* trusted input for the outpoint, and the packets its script is split into.
TxInputs == [trusted : BOOLEAN, blocks : 1..MaxScriptBlocks]
Transactions == UNION {[1..n -> TxInputs] : n \in 0..MaxTxInputs}

\* An encoding chosen by hasWitness before the trusted-input map is looked at.
inputHeaderWitnessFirst(input, j, hasWitness) ==
  [part |-> "input", input |-> j, block |-> 0,
   marker |-> IF hasWitness THEN 2 ELSE IF input.trusted THEN 1 ELSE 0,
   fields |-> IF hasWitness THEN <<"marker:1", "prevout:36", "amount:8", "scriptSize">>
              ELSE IF input.trusted THEN <<"marker:1", "tiLength:1", "ti", "scriptSize">>
              ELSE <<"marker:1", "prevout:36", "scriptSize">>]

\* The first packet of input j: 0x01, the length of the trusted input and the
\* trusted input if tis has one for the outpoint; else 0x02, the prevout and
\* the amount if hasWitness; else 0x00 and the prevout; the size of the script
\* ends each of them.
inputHeader(input, j, hasWitness) ==
  [part |-> "input", input |-> j, block |-> 0,
   marker |-> IF input.trusted THEN 1 ELSE IF hasWitness THEN 2 ELSE 0,
   fields |-> IF input.trusted THEN <<"marker:1", "tiLength:1", "ti", "scriptSize">>
              ELSE IF hasWitness THEN <<"marker:1", "prevout:36", "amount:8", "scriptSize">>
              ELSE <<"marker:1", "prevout:36", "scriptSize">>]

\* The packets of input j: the first one, then those of its script, the last
\* one ending with the sequence number.
inputPackets(input, j, isNew, hasWitness) ==
  <<APDUCommandHashTransactionStart(
      inputHeader(input, j, hasWitness), FALSE, isNew, hasWitness)>>
  \o [k \in 1..input.blocks |->
        APDUCommandHashTransactionStart(
          [part |-> IF k = input.blocks THEN "script+sequence" ELSE "script",
           input |-> j, block |-> k, marker |-> 0,
           fields |-> IF k = input.blocks THEN <<"script", "sequence:4">>
                      ELSE <<"script">>],
          FALSE, isNew, hasWitness)]

\* for (const input of tx.inputs): the packets of the inputs from j on.
RECURSIVE packetsFrom(_, _, _, _)
packetsFrom(tx, j, isNew, hasWitness) ==
  IF j > Len(tx) THEN <<>>
  ELSE inputPackets(tx[j], j, isNew, hasWitness)
       \o packetsFrom(tx, j + 1, isNew, hasWitness)

\* LedgerBTCApp.hashTransactionStart: the packets it composes.
composePackets(tx, isNew, hasWitness) ==
  <<APDUCommandHashTransactionStart(
      [part |-> "version+inputs", input |-> 0, block |-> 0, marker |-> 0,
       fields |-> <<"version:4", "inputCount">>],
      TRUE, isNew, hasWitness)>>
  \o packetsFrom(tx, 1, isNew, hasWitness)

\* hashTransactionStart(tx, view, tis, isNew, hasWitness) up to its first
\* exchange.
htsCall ==
  /\ hts.pc = "idle"
  /\ hts' = [hts EXCEPT !.pc = "sending",
                        !.packets = composePackets(hts.tx, hts.isNew, hts.hasWitness)]
  /\ UNCHANGED exceptHts

\* for (const packet of packets): the next packet goes out; the call raises
\* when its reply is refused and returns after the last one.
htsExchange(ok) ==
  /\ hts.pc = "sending"
  /\ hts' = [hts EXCEPT !.sent = @ + 1,
                        !.pc = IF ~ok THEN "raised"
                               ELSE IF hts.sent + 1 = Len(hts.packets) THEN "returned"
                               ELSE "sending"]
  /\ UNCHANGED exceptHts

InitStart ==
  /\ \E tx \in Transactions, isNew \in BOOLEAN, hasWitness \in BOOLEAN :
       hts = [tx |-> tx, isNew |-> isNew, hasWitness |-> hasWitness,
              pc |-> "idle", packets |-> <<>>, sent |-> 0]
  /\ ApduIdle /\ AppIdle /\ MgdIdle /\ BtcIdle /\ DevIdle /\ SigIdle /\ FrmIdle /\ GtsIdle /\ PathIdle /\ SesIdle /\ GtiIdle /\ TxiIdle /\ StxIdle /\ PhyIdle

NextStart ==
  \/ htsCall
  \/ \E ok \in BOOLEAN : htsExchange(ok)

SpecStart == InitStart /\ [][NextStart]_vars

(* C30: in every hashTransactionStart call exactly the first packet has     *)
(* p1 = 0x00 and every other packet has p1 = 0x80, and all packets carry    *)
(* the same p2: 0x80 when isNew is false, 0x00 when isNew is true and       *)
(* hasWitness is false, 0x02 when both are true.                            *)
C30_StartPacketFlags ==
  hts.pc # "idle" =>
    /\ Len(hts.packets) = 1 + Len(hts.tx)
         + (IF hts.tx = <<>> THEN 0
            ELSE LET sum[n \in 0..Len(hts.tx)] ==
                       IF n = 0 THEN 0 ELSE sum[n - 1] + hts.tx[n].blocks
                 IN sum[Len(hts.tx)])
    /\ \A n \in DOMAIN hts.packets :
         /\ hts.packets[n].ins = 68
         /\ hts.packets[n].p1 = (IF n = 1 THEN 0 ELSE 128)
         /\ hts.packets[n].p2 = (CASE ~hts.isNew -> 128
                                   [] hts.isNew /\ ~hts.hasWitness -> 0
                                   [] hts.isNew /\ hts.hasWitness -> 2)

\* A new-session witness call over two inputs has sent all its packets.
C30_Witness ==
  /\ hts.pc = "returned" /\ hts.isNew /\ hts.hasWitness
  /\ Len(hts.tx) = 2 /\ hts.sent = Len(hts.packets) /\ hts.sent >= 5
  /\ hts.packets[1].p1 = 0 /\ hts.packets[hts.sent].p1 = 128
  /\ hts.packets[hts.sent].p2 = 2

\* The packets of input j in the composed list: the place of its first one.
FirstOf(j) ==
  LET before[n \in 0..Len(hts.tx)] ==
        IF n = 0 THEN 1 ELSE before[n - 1] + 1 + hts.tx[n].blocks
  IN before[j - 1] + 1

(* C31: hashTransactionStart encodes each input on its own: 0x01 with the   *)
(* trusted input iff tis has an entry for the outpoint; else 0x02 with the  *)
(* prevout and the 8-byte amount iff hasWitness; else 0x00 with the bare    *)
(* prevout; the input's packet is followed by its script chunks, only the   *)
(* last of which carries the sequence number; nothing is sent before all    *)
(* packets of the call are built.                                           *)
C31_InputEncoding ==
  /\ hts.pc = "idle" => hts.sent = 0 /\ hts.packets = <<>>
  /\ hts.pc # "idle" =>
       /\ hts.sent <= Len(hts.packets)
       /\ \A j \in DOMAIN hts.tx :
            LET at == FirstOf(j)
                head == hts.packets[at].data
                in == hts.tx[j] IN
            /\ at + in.blocks <= Len(hts.packets)
            /\ head.part = "input" /\ head.input = j
            /\ head.marker = 1 <=> in.trusted
            /\ head.marker = 2 <=> ~in.trusted /\ hts.hasWitness
            /\ head.marker = 0 <=> ~in.trusted /\ ~hts.hasWitness
            /\ head.marker = 1 => head.fields = <<"marker:1", "tiLength:1", "ti", "scriptSize">>
            /\ head.marker = 2 =>
                 head.fields = <<"marker:1", "prevout:36", "amount:8", "scriptSize">>
            /\ head.marker = 0 => head.fields = <<"marker:1", "prevout:36", "scriptSize">>
            /\ \A k \in 1..in.blocks :
                 LET chunk == hts.packets[at + k].data IN
                 /\ chunk.input = j /\ chunk.block = k /\ chunk.fields[1] = "script"
                 /\ (k = in.blocks) <=> (Len(chunk.fields) = 2 /\ chunk.fields[2] = "sequence:4")
                 /\ k < in.blocks => chunk.fields = <<"script">>

\* A witness call over an input with a trusted input and one without: the
\* two are encoded differently, and the packets have gone out.
C31_Witness ==
  /\ hts.pc = "returned" /\ hts.hasWitness /\ Len(hts.tx) = 2
  /\ hts.tx[1].trusted /\ ~hts.tx[2].trusted /\ hts.tx[1].blocks = 2
  /\ hts.packets[FirstOf(1)].data.marker = 1
  /\ hts.packets[FirstOf(2)].data.marker = 2
  /\ hts.sent = Len(hts.packets)

(***************************************************************************)
(*        LedgerBTCApp.getTrustedInput: the exchanges of one call          *)
(***************************************************************************)

\* Messages utilTX.splitTransaction makes of a transaction, at most.
MaxChunks == 3

INS_GET_TRUSTED_INPUT == 66

\* The input indexes asked for.
InputIndexes == {0, 1, 258, 16909060}

\* writeU32BE(value)
writeU32BE(value) ==
  <<value \div 16777216, (value \div 65536) % 256, (value \div 256) % 256, value % 256>>

\* An APDUCommand that is a first part whatever it is told.
APDUCommandGetTrustedInputFirst(payload, first) ==
  [cla |-> CLA_GENERAL, ins |-> INS_GET_TRUSTED_INPUT, p1 |-> 0, data |-> payload]

\* APDUCommand.getTrustedInput(data, first)
APDUCommandGetTrustedInput(payload, first) ==
  [cla |-> CLA_GENERAL, ins |-> INS_GET_TRUSTED_INPUT,
   p1 |-> IF first THEN 0 ELSE 128, data |-> payload]

\* The c-th message of the split transaction: one byte stands for its bytes.
Chunk(c) == <<200 + c>>

\* The messages after "first packet must contain inputIndex".
trustedInputMessages(n, inputIndex) ==
  [c \in 1..n |-> IF c = 1 THEN writeU32BE(inputIndex) \o Chunk(1) ELSE Chunk(c)]

\* A trusted input as the device returns it: 56 bytes.
Blob == [c \in 1..56 |-> c]

\* What the device answers to a packet: 0x9000 alone, the trusted input and
\* 0x9000, a refusal.
TrustedInputReplies == {<<144, 0>>, Blob \o <<144, 0>>, <<105, 133>>}

\* getTrustedInput(tx, inputIndex) up to its first exchange: the messages,
\* last = messages.pop(), first = true.
gtiCall ==
  /\ gti.pc = "idle"
  /\ gti' = [gti EXCEPT !.pc = "sending", !.first = TRUE,
                        !.messages = trustedInputMessages(gti.n, gti.inputIndex)]
  /\ UNCHANGED exceptGti

\* The next packet goes out and is answered: one of messages in the loop,
\* with first, which the loop then clears; after the loop the last one, never
\* as a first part. A reply that does not decode ends the call.
gtiExchange(reply) ==
  /\ gti.pc = "sending"
  /\ LET k == Len(gti.sent) + 1
         inLoop == k < Len(gti.messages)
         packet == APDUCommandGetTrustedInput(gti.messages[k],
                                              IF inLoop THEN gti.first ELSE FALSE)
         d == DecodeGetTrustedInput(reply) IN
     gti' = [gti EXCEPT !.sent = Append(@, packet),
                        !.replies = Append(@, reply),
                        !.first = IF inLoop /\ d.type = "APDUResponse" THEN FALSE ELSE @,
                        !.pc = IF d.type # "APDUResponse" THEN "raised"
                               ELSE IF inLoop THEN "sending" ELSE "returned",
                        !.result = IF d.type # "APDUResponse" THEN d
                                   ELSE IF inLoop THEN @
                                   ELSE [type |-> "return", data |-> d.data]]
  /\ UNCHANGED exceptGti

InitTrusted ==
  /\ \E n \in 1..MaxChunks, inputIndex \in InputIndexes :
       gti = [n |-> n, inputIndex |-> inputIndex, pc |-> "idle", messages |-> <<>>,
              first |-> TRUE, sent |-> <<>>, replies |-> <<>>, result |-> Pending]
  /\ ApduIdle /\ AppIdle /\ MgdIdle /\ BtcIdle /\ DevIdle /\ SigIdle /\ FrmIdle /\ GtsIdle /\ PathIdle /\ SesIdle /\ HtsIdle /\ TxiIdle /\ StxIdle /\ PhyIdle

NextTrusted ==
  \/ gtiCall
  \/ \E reply \in TrustedInputReplies : gtiExchange(reply)

SpecTrusted == InitTrusted /\ [][NextTrusted]_vars

(* C32: for a transaction split into n >= 1 chunks getTrustedInput sends    *)
(* exactly n exchanges in chunk order; the payload of the first begins with *)
(* the 4-byte big-endian input index and no other payload carries it; the   *)
(* first exchange has p1 = 0x00 and every later one p1 = 0x80; the result   *)
(* is the 56-byte blob of the last response.                                *)
C32_TrustedInputExchanges ==
  /\ Len(gti.sent) <= gti.n
  /\ \A k \in DOMAIN gti.sent :
       /\ gti.sent[k].ins = 66
       /\ gti.sent[k].p1 = (IF k = 1 THEN 0 ELSE 128)
       /\ gti.sent[k].data =
            (IF k = 1 THEN writeU32BE(gti.inputIndex) \o Chunk(1) ELSE Chunk(k))
  /\ gti.pc = "returned" =>
       /\ Len(gti.sent) = gti.n
       /\ Len(gti.replies[gti.n]) = 58 =>
            gti.result = [type |-> "return", data |-> SubSeq(gti.replies[gti.n], 1, 56)]

(***************************************************************************)
(*            LedgerTXInput.getPrevRedeem: the script to sign              *)
(***************************************************************************)

\* Calls of getPrevRedeem on the one descriptor.
MaxRedeemCalls == 3

\* The kinds of previous output script.
PrevKinds == {"P2PKH", "P2SH", "P2WPKH", "P2WSH"}

\* The scripts told apart: the previous output script, the redeem script of
\* the options, and pay-to-pubkeyhash of a hash taken from the ring's program
\* or from the previous output script.
Script(type, from) == [type |-> type, from |-> from]
NoScript == Script("null", "none")
Raised(e) == Script("raised", e)

\* Script.fromPubkeyhash(hash); it asserts that hash is a 20-byte buffer.
fromPubkeyhash(from, hasHash) ==
  IF hasHash THEN Script("pubkeyhash", from) ELSE Raised("AssertionError")

\* A rule that looks for a script hash first.
getPrevRedeemScripthashFirst(d) ==
  IF d.prevred # NoScript THEN d.prevred
  ELSE IF d.prev \in {"P2SH", "P2WSH"}
    THEN IF d.redeem THEN Script("redeem", "options") ELSE NoScript
  ELSE IF d.prev = "P2SH" /\ d.witness /\ ~d.redeem
    THEN IF ~d.publicKey THEN Raised("LedgerError")
         ELSE fromPubkeyhash("ring program", TRUE)
  ELSE IF ~d.witness THEN Script("prev", d.prev)
  ELSE fromPubkeyhash("prev", d.prev = "P2WPKH")

\* getPrevRedeem(): what it returns, or the error it raises. getRing() raises
\* without a public key; the program of a witness ring without a script is
\* its witness pubkeyhash.
getPrevRedeem(d) ==
  IF d.prevred # NoScript THEN d.prevred
  ELSE IF d.prev = "P2SH" /\ d.witness /\ ~d.redeem
    THEN IF ~d.publicKey THEN Raised("LedgerError")
         ELSE fromPubkeyhash("ring program", TRUE)
  ELSE IF d.prev \in {"P2SH", "P2WSH"}
    THEN IF d.redeem THEN Script("redeem", "options") ELSE NoScript
  ELSE IF ~d.witness THEN Script("prev", d.prev)
  ELSE fromPubkeyhash("prev", d.prev = "P2WPKH")

\* Script.hashType
SIGHASH_ALL == 1
\* options.type: not given, or ALL, NONE, SINGLE, ALL | ANYONECANPAY.
SighashOptions ==
  {[given |-> FALSE, value |-> 0]} \cup {[given |-> TRUE, value |-> v] : v \in {1, 2, 3, 129}}

\* fromOptions(options): the asserts that depend on the sighash type, the
\* redeem script, the witness flag and the previous output, in their order.
inputFromOptions(o) ==
  IF o.optType.given /\ o.optType.value = SIGHASH_ALL
    THEN [pc |-> "failed", error |-> "Ledger only supports SIGHASH_ALL", type |-> SIGHASH_ALL]
  ELSE LET type == IF o.optType.given THEN o.optType.value ELSE SIGHASH_ALL IN
    IF o.prev = "P2WSH" /\ ~o.redeem
      THEN [pc |-> "failed", error |-> "Can not sign ScriptHash without redeem.", type |-> type]
    ELSE IF ~o.witness /\ o.prev \in {"P2WPKH", "P2WSH"}
      THEN [pc |-> "failed", error |-> "input script is program.", type |-> type]
    ELSE [pc |-> "built", error |-> "none", type |-> type]

\* new LedgerTXInput(options)
construct ==
  /\ txi.pc = "options"
  /\ LET r == inputFromOptions(txi) IN
     txi' = [txi EXCEPT !.pc = r.pc, !.error = r.error, !.type = r.type]
  /\ UNCHANGED exceptTxi

\* li.getPrevRedeem(): the script is kept in _prevred when the call returns.
getPrevRedeemCall ==
  /\ txi.pc = "built"
  /\ Len(txi.results) < MaxRedeemCalls
  /\ LET r == getPrevRedeem(txi) IN
     txi' = [txi EXCEPT !.prevred = IF r.type = "raised" THEN @ ELSE r,
                        !.results = Append(@, [script |-> r, publicKey |-> txi.publicKey])]
  /\ UNCHANGED exceptTxi

\* collectPubkeys: li.publicKey = ... on a descriptor without one.
setPublicKey ==
  /\ txi.pc = "built"
  /\ ~txi.publicKey
  /\ txi' = [txi EXCEPT !.publicKey = TRUE]
  /\ UNCHANGED exceptTxi

\* The options of a descriptor about to be constructed: type is SIGHASH_ALL
\* until fromOptions sets it.
InitRedeem ==
  /\ \E prev \in PrevKinds, witness \in BOOLEAN, redeem \in BOOLEAN, publicKey \in BOOLEAN,
        optType \in SighashOptions :
       txi = [prev |-> prev, witness |-> witness, redeem |-> redeem,
              publicKey |-> publicKey, optType |-> optType, type |-> SIGHASH_ALL,
              pc |-> "options", error |-> "none",
              prevred |-> NoScript, results |-> <<>>]
  /\ ApduIdle /\ AppIdle /\ MgdIdle /\ BtcIdle /\ DevIdle /\ SigIdle /\ FrmIdle /\ GtsIdle /\ PathIdle /\ SesIdle /\ HtsIdle /\ GtiIdle /\ StxIdle /\ PhyIdle

NextRedeem ==
  \/ construct
  \/ getPrevRedeemCall
  \/ setPublicKey

SpecRedeem == InitRedeem /\ [][NextRedeem]_vars

\* The script the four-way rule names for the descriptor.
RuleScript ==
  CASE txi.prev = "P2SH" /\ txi.witness /\ ~txi.redeem -> Script("pubkeyhash", "ring program")
    [] txi.prev \in {"P2SH", "P2WSH"} ->
         IF txi.redeem THEN Script("redeem", "options") ELSE NoScript
    [] ~txi.witness -> Script("prev", txi.prev)
    [] OTHER -> Script("pubkeyhash", "prev")

(* C34: getPrevRedeem selects the script by the four-way rule, in order:    *)
(* (1) P2SH previous output, witness, no redeem: pay-to-pubkeyhash of the   *)
(* ring's witness-pubkeyhash program; (2) P2SH or P2WSH: the redeem script; *)
(* (3) witness false: the previous output script; (4) otherwise             *)
(* pay-to-pubkeyhash of the previous output's witness pubkeyhash; repeated  *)
(* calls on the same descriptor return the same script.                     *)
C34_PrevRedeemRule ==
  /\ \A n \in DOMAIN txi.results :
       LET r == txi.results[n] IN
       /\ r.script.type # "raised" => r.script = RuleScript
       /\ r.script.type = "raised" <=>
            \/ txi.prev = "P2SH" /\ txi.witness /\ ~txi.redeem /\ ~r.publicKey
            \/ txi.prev = "P2PKH" /\ txi.witness
  /\ \A m, n \in DOMAIN txi.results :
       (txi.results[m].script.type # "raised" /\ txi.results[n].script.type # "raised")
         => txi.results[m].script = txi.results[n].script

\* A nested P2WPKH descriptor was asked twice once it had its public key:
\* both calls gave the pay-to-pubkeyhash script of the ring's program.
C34_Witness ==
  /\ txi.prev = "P2SH" /\ txi.witness /\ ~txi.redeem
  /\ Len(txi.results) = 3
  /\ txi.results[1].script.type = "raised"
  /\ txi.results[2].script = Script("pubkeyhash", "ring program")
  /\ txi.results[3].script = txi.results[2].script

(* C38: for every descriptor its constructor accepted getPrevRedeem returns *)
(* a script, never null or undefined, so the input being signed always has  *)
(* a script in the transaction prepareLegacyTX / prepareWitnessTX build.     *)
C38_AlwaysAScript ==
  \A n \in DOMAIN txi.results : txi.results[n].script # NoScript

(* C40: LedgerTXInput accepts SIGHASH_ALL and only SIGHASH_ALL: with         *)
(* options.type equal to SIGHASH_ALL the construction succeeds and leaves   *)
(* type = SIGHASH_ALL; with any other sighash type it fails with 'Ledger    *)
(* only supports SIGHASH_ALL'.                                              *)
C40_OnlySighashAll ==
  (txi.pc # "options" /\ txi.optType.given) =>
    IF txi.optType.value = 1
      THEN txi.error # "Ledger only supports SIGHASH_ALL"
           /\ (txi.pc = "built" => txi.type = 1)
           /\ (txi.pc = "failed" =>
                 txi.error \in {"Can not sign ScriptHash without redeem.",
                                "input script is program."})
      ELSE txi.pc = "failed" /\ txi.error = "Ledger only supports SIGHASH_ALL"


(***************************************************************************)
(*      LedgerBcoin._signTransaction: the caller's transaction             *)
(***************************************************************************)

\* The script or witness of an input nobody has signed.
Unsigned == "unsigned"
\* A transaction of n inputs as the caller hands it over.
CallerTx(n) == [o \in 1..n |-> Unsigned]

\* The outcomes of applySignature(tx, index, li, sig): it returns true, it
\* returns false (signVector gave nothing), or it throws ('Could not find
\* input.', 'Could not template input.').
ApplyOutcomes == {"true", "false", "throws"}

\* applySignature: on success vector.fromStack(result) rewrites the script
\* or the witness of tx.inputs[index], the input at position index + 1.
applySignature(tx, index, outcome) ==
  IF outcome = "true" THEN [tx EXCEPT ![index + 1] = "signed"] ELSE tx

\* The descriptor the loop is at, and its index in the transaction.
stxFound(t) == t.inputs[t.k] \in DOMAIN mapTXInputs(t.n)
stxIndex(t) == mapTXInputs(t.n)[t.inputs[t.k]]

stxThrown(t, e) == [t EXCEPT !.pc = "raised", !.result = e]

\* The head of the for loop: past the last descriptor destroy the session
\* and return tx, else assert(index >= 0) and ask for the signature.
stxLoopHead(t) ==
  IF t.k > Len(t.inputs)
    THEN [t EXCEPT !.pc = "returned", !.result = "tx"]
    ELSE IF ~stxFound(t)
      THEN stxThrown(t, "Could not find ledger input index.")
      ELSE [t EXCEPT !.pc = "getSignature"]

\* assert(MTX.isMTX(tx)); mtx = tx.clone(); the session is made over mtx.
stxCall ==
  /\ stx.pc = "called"
  /\ stx' = IF stx.isMTX
              THEN [stx EXCEPT !.pc = "collect", !.mtx = stx.tx]
              ELSE stxThrown(stx, "Cannot use non-MTX tx for signing")
  /\ UNCHANGED exceptStx

\* sigstate.init() and the three collecting awaits, then the loop is entered.
stxCollect(ok) ==
  /\ stx.pc = "collect"
  /\ stx' = IF ok THEN stxLoopHead([stx EXCEPT !.k = 1])
                  ELSE stxThrown(stx, "LedgerError")
  /\ UNCHANGED exceptStx

\* await sigstate.getSignature(li) settles.
stxGetSignature(ok) ==
  /\ stx.pc = "getSignature"
  /\ stx' = IF ok THEN [stx EXCEPT !.pc = "applySignature"]
                  ELSE stxThrown(stx, "LedgerError")
  /\ UNCHANGED exceptStx

\* assert(this.applySignature(tx, index, li, sig), 'Adding signature failed.')
\* on the transaction the caller passed, then the next descriptor.
stxApplySignature(outcome) ==
  /\ stx.pc = "applySignature"
  /\ LET applied == [stx EXCEPT !.tx = applySignature(stx.tx, stxIndex(stx), outcome)] IN
     stx' = CASE outcome = "true" -> stxLoopHead([applied EXCEPT !.k = @ + 1])
              [] outcome = "false" -> stxThrown(applied, "Adding signature failed.")
              [] OTHER -> stxThrown(applied, "Could not template input.")
  /\ UNCHANGED exceptStx

InitSignTransaction ==
  /\ \E n \in 1..MaxTxInputs, l \in DescriptorLists, isMTX \in BOOLEAN :
       stx = [n |-> n, inputs |-> l, isMTX |-> isMTX, tx |-> CallerTx(n),
              mtx |-> <<>>, before |-> CallerTx(n), pc |-> "called", k |-> 0,
              result |-> "pending"]
  /\ ApduIdle /\ AppIdle /\ MgdIdle /\ BtcIdle /\ DevIdle /\ SigIdle /\ FrmIdle /\ GtsIdle /\ PathIdle /\ SesIdle /\ HtsIdle /\ GtiIdle /\ TxiIdle /\ PhyIdle

NextSignTransaction ==
  \/ stxCall
  \/ \E ok \in BOOLEAN : stxCollect(ok)
  \/ \E ok \in BOOLEAN : stxGetSignature(ok)
  \/ \E outcome \in ApplyOutcomes : stxApplySignature(outcome)

SpecSignTransaction == InitSignTransaction /\ [][NextSignTransaction]_vars

\* The inputs of the transaction named by the descriptors of the call.
stxNamed == {o \in DOMAIN stx.tx : \E k \in DOMAIN stx.inputs : stx.inputs[k] = o}

(* C39: signTransaction is all-or-nothing on the caller's transaction: a    *)
(* call that raised has left the script and witness of every input as they  *)
(* were before the call, and a call that returned has changed only the      *)
(* inputs named by its descriptors.                                         *)
C39_AllOrNothing ==
  /\ stx.pc = "raised" => stx.tx = stx.before
  /\ stx.pc = "returned" =>
       \A o \in DOMAIN stx.tx : o \notin stxNamed => stx.tx[o] = stx.before[o]


(***************************************************************************)
(*   One endpoint: an exchange that timed out and the exchange after it    *)
(***************************************************************************)

\* The most packets a response is made of.
MaxResponse == 2

\* The two exchanges made on the device, in this order.
Earlier == "A"
Later == "B"

\* Packet seq of the response to exchange e: same channel, same tag.
ResponsePacket(e, seq) == [of |-> e, seq |-> seq]

\* new ProtocolReader(...) and what _exchange knows of its exchange: pushed is
\* every packet handed to reader.pushMessage, in order.
NewExchange == [pc |-> "idle", sequence |-> 0, pushed |-> <<>>, result |-> Null]

\* Device._readTimeout(): a physical read is requested of the endpoint for
\* exchange e (this._read()) and awaited in a race with the timer.
phyReadTimeout(y, e) ==
  [y EXCEPT !.reads = Append(@, e), ![e].pc = "read"]

\* reader.pushMessage(data) in the loop of _exchange for exchange e: the
\* reader takes the packet whose sequence it awaits, whatever request the
\* device sent it for, and is finished after the packets the first declared.
phyPush(y, e, packet) ==
  LET x == [y[e] EXCEPT !.pushed = Append(@, packet)] IN
  IF packet.seq # x.sequence
    THEN [y EXCEPT ![e] = [x EXCEPT !.pc = "done", !.result = "ProtocolError"]]
    ELSE LET z == [x EXCEPT !.sequence = @ + 1]
             declared == y.n[x.pushed[1].of] IN
         IF z.sequence >= declared
           THEN [y EXCEPT ![e] = [z EXCEPT !.pc = "done", !.result = "ok"]]
           ELSE phyReadTimeout([y EXCEPT ![e] = z], e)

\* The device sends the next packet of its response to exchange e: to the
\* earlier one at any time, late or never; to the later one once its request
\* was written, and then nothing more to the earlier one.
phySends(e) ==
  /\ phy.out[e] < phy.n[e]
  /\ IF e = Earlier THEN phy.out[Later] = 0 ELSE phy[Later].pc # "idle"
  /\ phy' = [phy EXCEPT !.out[e] = @ + 1,
                        !.wire = Append(@, ResponsePacket(e, phy.out[e]))]
  /\ UNCHANGED exceptPhy

\* A physical read requested of the endpoint completes with the packet the
\* device sent first: if its exchange still awaits it the packet goes to the
\* reader, if its exchange gave it up the packet is dropped.
phyReadCompletes(k) ==
  /\ k \in DOMAIN phy.reads
  /\ phy.wire # <<>>
  /\ LET e == phy.reads[k]
         packet == Head(phy.wire)
         awaited == phy[e].pc = "read"
         y == [phy EXCEPT !.wire = Tail(@),
                          !.reads = SubSeq(@, 1, k - 1) \o SubSeq(@, k + 1, Len(@))] IN
     phy' = IF awaited THEN phyPush(y, e, packet)
                       ELSE [y EXCEPT !.dropped = @ \cup {packet}]
  /\ UNCHANGED exceptPhy

\* The timer of _readTimeout fires first: exchange e raises 'Read Timeout';
\* its physical read stays requested of the endpoint.
phyTimerFires(e) ==
  /\ phy[e].pc = "read"
  /\ phy' = [phy EXCEPT ![e].pc = "done", ![e].result = "Read Timeout"]
  /\ UNCHANGED exceptPhy

\* The later exchange gets the device lock when the earlier one has settled:
\* it writes its request and requests its first read.
phyExchange ==
  /\ phy[Earlier].pc = "done"
  /\ phy[Later].pc = "idle"
  /\ phy' = phyReadTimeout(phy, Later)
  /\ UNCHANGED exceptPhy

\* The earlier exchange has written its request and awaits its first read.
InitEndpoint ==
  /\ \E na \in 1..MaxResponse, nb \in 1..MaxResponse :
       phy = phyReadTimeout(
               [A |-> NewExchange, B |-> NewExchange, reads |-> <<>>, wire |-> <<>>,
                dropped |-> {}, n |-> [A |-> na, B |-> nb], out |-> [A |-> 0, B |-> 0]],
               Earlier)
  /\ ApduIdle /\ AppIdle /\ MgdIdle /\ BtcIdle /\ DevIdle /\ SigIdle /\ FrmIdle /\ GtsIdle /\ PathIdle /\ SesIdle /\ HtsIdle /\ GtiIdle /\ TxiIdle /\ StxIdle

NextEndpoint ==
  \/ \E e \in {Earlier, Later} : phySends(e)
  \/ \E k \in DOMAIN phy.reads : phyReadCompletes(k)
  \/ \E e \in {Earlier, Later} : phyTimerFires(e)
  \/ phyExchange

SpecEndpoint == InitEndpoint /\ [][NextEndpoint]_vars

(* C36: after an exchange ended with a read timeout, the packets the device *)
(* sends for the next exchange on the device all reach that exchange's      *)
(* reader, in order: none is taken by the read the earlier exchange gave    *)
(* up, and no late packet of the earlier response is pushed into the later  *)
(* reader.                                                                  *)
C36_AbandonedReadHarmless ==
  phy[Earlier].result = "Read Timeout" =>
    /\ \A packet \in phy.dropped : packet.of # Later
    /\ \A j \in DOMAIN phy[Later].pushed : phy[Later].pushed[j] = ResponsePacket(Later, j - 1)

====
